---------------------------- MODULE Spec2Model ----------------------------
(***************************************************************************)
(* A model of the Movebank tools: the GPS viewer (src/gps_viewer.py: the   *)
(* playback state machine of class GPSViewer, its loading and filtering,   *)
(* the incremental render, the day/night classifier) and the fetcher       *)
(* (src/fetch_movebank_data.py: credentials, call_api, the study export,   *)
(* the timestamp normalizer).                                              *)
(*                                                                         *)
(* The viewer is a single-threaded Tk program: every action below is one   *)
(* complete event handler (a button command, a combobox selection, a       *)
(* slider command or a fired `after` timer), run to completion.            *)
(***************************************************************************)
EXTENDS Integers, Sequences, FiniteSets, TLC

(***************************************************************************)
(* Bounds of the model.                                                    *)
(***************************************************************************)
\* number of GPS rows of the longest track (animal "A") in the loaded table
MaxTrack == 4
\* the dates a user types into the start/end entries are days 1..MaxDay
MaxDay == 2
\* identifiers available for Tk `after` timers (Tk's are unbounded)
MaxTimerIds == 3

\* timestamps are counted in ticks; a calendar day has TicksPerDay of them
TicksPerDay == 2

\* a DataFrame attribute: None, or a frame holding a sequence of rows
NoFrame == [isNone |-> TRUE, rows |-> <<>>]
Frame(rows) == [isNone |-> FALSE, rows |-> rows]

\* the text of a date entry: empty, the date of a day, or text that
\* pd.to_datetime cannot parse
EmptyDate == [kind |-> "empty", day |-> 0]
DateText(d) == [kind |-> "date", day |-> d]
BadDate == [kind |-> "bad", day |-> 0]

VARIABLES
    events_file,         \* events_gps.csv in the data directory, as load_data finds it
    animal_combo,        \* self.animal_combo['values']: the animals the combobox offers
    gps_data,            \* self.gps_data: NoFrame or the loaded rows, in file order
    animal_var,          \* self.animal_var: "" or the selected animal
    start_date_var,      \* self.start_date_var: the text of the start date entry
    end_date_var,        \* self.end_date_var
    filtered_data,       \* self.filtered_data: NoFrame or the filtered rows, sorted
    animation_playing,   \* self.animation_playing
    animation_index,     \* self.animation_index (the playback cursor)
    animation_timer,     \* self.animation_timer: {} for None, or {id}, the last id root.after returned
    pending,             \* the Tk event loop: ids of the `after` timers not yet fired or cancelled
    position_var,        \* self.position_var (the position slider, 0..100)
    preview,             \* what the map canvas shows: [mode, shown]
    last,                \* the handler that ran last, with its input
    strftime_pads,       \* the platform: whether strftime('%Y') zero-pads the year
    arg,                 \* the input of the function a specification applies
    res,                 \* and its result
    credentials,         \* the fetcher's surroundings: constructor parameters, environment, config.py
    args,                \* the command line of fetch_movebank_data.py
    fetcher,             \* the MovebankDataFetcher object of main, once constructed
    pc,                  \* where main (and fetch_all_study_data in it) stands
    requested,           \* the call_api invocations so far, in order
    last_call,           \* the HTTP exchange of the latest call_api and its outcome
    sensor_ids,          \* the sensor types whose events are still to be fetched
    files                \* the files written to the output directory

vars == <<events_file, animal_combo, gps_data, animal_var, start_date_var, end_date_var, filtered_data,
          animation_playing, animation_index, animation_timer, pending,
          position_var, preview, last, strftime_pads, arg, res,
          credentials, args, fetcher, pc, requested, last_call, sensor_ids, files>>

viewerVars == <<events_file, animal_combo, gps_data, animal_var, start_date_var, end_date_var, filtered_data,
                animation_playing, animation_index, animation_timer, pending,
                position_var, preview>>

fetchVars == <<credentials, args, fetcher, pc, requested, last_call, sensor_ids, files>>

fnVars == <<strftime_pads, arg, res, fetchVars>>

\* the record kept in `last`: the handler, its input, and animation_playing
\* and animation_index as the handler found them
Did(op, in) ==
    [op |-> op, in |-> in, playing |-> animation_playing, index |-> animation_index]

(***************************************************************************)
(* The loaded table.  A row has its place in the file, its animal, its     *)
(* timestamp and whether it has both coordinates.  GpsTable is the rows    *)
(* with coordinates: animal "A" has MaxTrack rows, written newest first,   *)
(* the two oldest sharing one timestamp; "B" has two rows two days apart;  *)
(* "C" has one row.  EventsCsv is the file: around those rows, a row of    *)
(* "A" and a row of "D" without coordinates.                               *)
(***************************************************************************)
Max(a, b) == IF a >= b THEN a ELSE b
Min(a, b) == IF a <= b THEN a ELSE b

GpsTable ==
    [i \in 1..MaxTrack |->
        [row |-> i, animal |-> "A", ts |-> TicksPerDay + Max(MaxTrack - i, 1), located |-> TRUE]]
    \o << [row |-> MaxTrack + 1, animal |-> "B", ts |-> 3 * TicksPerDay, located |-> TRUE],
          [row |-> MaxTrack + 2, animal |-> "B", ts |-> TicksPerDay, located |-> TRUE],
          [row |-> MaxTrack + 3, animal |-> "C", ts |-> 2 * TicksPerDay, located |-> TRUE] >>

EventsCsv ==
    << [row |-> 0, animal |-> "A", ts |-> TicksPerDay + 1, located |-> FALSE] >>
    \o GpsTable
    \o << [row |-> MaxTrack + 4, animal |-> "D", ts |-> 2 * TicksPerDay, located |-> FALSE] >>

\* dropna(subset=['location_lat', 'location_long'])
DropNa(rows) == SelectSeq(rows, LAMBDA r : r.located)

\* events_gps.csv: not there, or its rows and the step of load_data that
\* raises on it: "read" (pd.read_csv), "timestamp" (pd.to_datetime, or no
\* timestamp column), "coordinates" (no coordinate column), "animals" (no
\* individual_local_identifier column), or "" when it loads
NoFile == [exists |-> FALSE, fails |-> "", rows |-> <<>>]
CsvFile(rows, fails) == [exists |-> TRUE, fails |-> fails, rows |-> rows]

Range(s) == {s[i] : i \in DOMAIN s}

\* strftime('%Y-%m-%d') of a timestamp: its calendar day
DayOf(ts) == ts \div TicksPerDay

\* the values of the animal combobox: the animals of the table (load_data)
Animals(gps) == {r.animal : r \in Range(gps.rows)}

\* the lexicographic order of the animal names, as sorted() orders them
AnimalOrder == <<"A", "B", "C", "D">>

\* sorted(animals_str)[0]: the animal load_data selects
FirstAnimal(gps) ==
    AnimalOrder[CHOOSE i \in DOMAIN AnimalOrder :
                    /\ AnimalOrder[i] \in Animals(gps)
                    /\ \A j \in 1..(i - 1) : AnimalOrder[j] \notin Animals(gps)]

\* the rows of one animal: gps_data[individual_local_identifier == animal]
AnimalRows(gps, animal) == {r \in Range(gps.rows) : r.animal = animal}

MinTs(rows) == CHOOSE t \in {r.ts : r \in rows} : \A r \in rows : t <= r.ts
MaxTs(rows) == CHOOSE t \in {r.ts : r \in rows} : \A r \in rows : t >= r.ts

(***************************************************************************)
(* filter_data: the rows of the animal, kept when                          *)
(*   start_date <= timestamp < end_date + 1 day,                           *)
(* or all of them when an entry makes pd.to_datetime raise (except: pass), *)
(* then sort_values('timestamp').  An empty entry does not raise: it is    *)
(* NaT, which no timestamp compares with, and no row is kept.              *)
(* sort_values uses an unstable sort, so rows with equal timestamps may    *)
(* come out in either order: FilterResults is the set of the orders the    *)
(* sort may produce.                                                       *)
(***************************************************************************)
\* a faulty variant: the end date itself is left out
DateMatches_EndExclusive(r, s, e) ==
    IF s.kind = "bad" \/ e.kind = "bad" THEN TRUE
    ELSE IF s.kind = "empty" \/ e.kind = "empty" THEN FALSE
    ELSE r.ts >= s.day * TicksPerDay /\ r.ts < e.day * TicksPerDay

DateMatches(r, s, e) ==
    IF s.kind = "bad" \/ e.kind = "bad" THEN TRUE
    ELSE IF s.kind = "empty" \/ e.kind = "empty" THEN FALSE
    ELSE r.ts >= s.day * TicksPerDay /\ r.ts < (e.day + 1) * TicksPerDay

\* the orders of `rows` with non-decreasing timestamps: rows of one timestamp
\* in any order, otherwise the rows before the median timestamp, sorted,
\* followed by the rest, sorted
RECURSIVE SortedOrders(_)
SortedOrders(rows) ==
    LET times == {r.ts : r \in rows}
        median == CHOOSE t \in times :
                      Cardinality({u \in times : u < t}) = Cardinality(times) \div 2
    IN  IF rows = {} THEN {<<>>}
        ELSE IF Cardinality(times) = 1
        THEN UNION {{<<r>> \o rest : rest \in SortedOrders(rows \ {r})} : r \in rows}
        ELSE {lo \o hi : lo \in SortedOrders({r \in rows : r.ts < median}),
                         hi \in SortedOrders({r \in rows : r.ts >= median})}

FilterResults(gps, animal, s, e) ==
    {Frame(f) : f \in SortedOrders({r \in AnimalRows(gps, animal) : DateMatches(r, s, e)})}

\* len(self.filtered_data)
Length(fd) == Len(fd.rows)

\* self.filtered_data is None or len(self.filtered_data) == 0
NoData(fd) == fd.isNone \/ Length(fd) = 0

(***************************************************************************)
(* update_map_preview: nothing without data; otherwise the figure is       *)
(* cleared and the full track drawn over map tiles.  Fetching the tiles    *)
(* may fail: the except branch reports it and the lines resetting the      *)
(* markers and the slider are not reached.  `ok` is whether the drawing    *)
(* succeeded.  The result is <<position_var, preview>>.                    *)
(***************************************************************************)
\* a faulty variant: the redraw forgets self.position_var.set(0)
FullPreview_KeepsSlider(fd, ok, pos, prev) ==
    IF NoData(fd) THEN <<pos, prev>>
    ELSE IF ok THEN <<pos, [mode |-> "full", shown |-> Length(fd)]>>
    ELSE <<pos, [mode |-> "failed", shown |-> 0]>>

FullPreview(fd, ok, pos, prev) ==
    IF NoData(fd) THEN <<pos, prev>>
    ELSE IF ok THEN <<0, [mode |-> "full", shown |-> Length(fd)]>>
    ELSE <<pos, [mode |-> "failed", shown |-> 0]>>

(***************************************************************************)
(* update_map_preview_animated(num_points): marker and trail for the point *)
(* num_points - 1, then the slider is set to int(num_points / len * 100).  *)
(* Any exception is caught and printed, leaving slider and canvas alone.   *)
(***************************************************************************)
SliderPos(num_points, len) == (num_points * 100) \div len

\* .iloc[num_points - 1]: the position (1-based) of the row shown; index -1
\* wraps to the last row
ShownPoint(num_points, len) == IF num_points >= 1 THEN num_points ELSE len + num_points

AnimatedPreview(fd, num_points, ok, pos, prev) ==
    IF NoData(fd) THEN <<pos, prev>>
    ELSE IF ok /\ num_points <= Length(fd)
         THEN <<SliderPos(num_points, Length(fd)),
                [mode |-> "animated", shown |-> ShownPoint(num_points, Length(fd))]>>
    ELSE <<pos, prev>>

(***************************************************************************)
(* on_position_changed computes int((position / 100) * max_index) in       *)
(* double precision.  The product is the exact p * m / 100 rounded to a    *)
(* double, and int() truncates it; for 0 <= p <= 100 and 0 <= m <= 110    *)
(* the truncation differs from the exact floor only where p * m / 100 is   *)
(* an integer and the double product falls just below it (0.29 * 100 is    *)
(* 28.999999999999996): the pairs <<p, m>> of FloatBelow.                   *)
(***************************************************************************)
FloatBelow == {<<58, 50>>, <<70, 90>>, <<29, 100>>, <<57, 100>>, <<58, 100>>}

\* a faulty variant: the product is rounded to the nearest index instead of truncated
TruncIndex_Rounds(p, m) == (p * m + 50) \div 100

TruncIndex(p, m) ==
    IF <<p, m>> \in FloatBelow THEN (p * m) \div 100 - 1 ELSE (p * m) \div 100

\* a faulty variant: the lower clamp is 0, so the first point can be sought
ClampIndex_FromZero(index, max_index) == Max(0, Min(index, max_index))

\* index = max(1, min(index, max_index))
ClampIndex(index, max_index) == Max(1, Min(index, max_index))

\* a faulty variant: the index is not clamped
SeekIndex_Unclamped(p, len) == TruncIndex(p, len - 1)

\* the cursor a seek to slider position p gives on a view of len rows
SeekIndex(p, len) == ClampIndex(TruncIndex(p, len - 1), len - 1)

(***************************************************************************)
(* Tk timers.  root.after returns a fresh identifier; the model reuses an  *)
(* identifier only when it is neither pending nor the one still held in    *)
(* animation_timer, which no handler can tell from a fresh one.            *)
(* after_cancel of an identifier that is not pending does nothing.         *)
(***************************************************************************)
TimerIds == 1..MaxTimerIds

FreshIds(pend) == {id \in TimerIds : id \notin pend /\ id \notin animation_timer}

NewTimerId(pend) == CHOOSE id \in FreshIds(pend) : \A other \in FreshIds(pend) : id <= other

\* a faulty variant: the pending timer is not cancelled
AfterCancel_Forgets(pend, timer) == pend

\* if self.animation_timer: self.root.after_cancel(self.animation_timer)
AfterCancel(pend, timer) == pend \ timer

(***************************************************************************)
(* reset_animation, called with `pend` timers pending.                     *)
(***************************************************************************)
ResetAnimation(pend, ok) ==
    /\ animation_index' = 0
    /\ animation_playing' = FALSE
    /\ pending' = AfterCancel(pend, animation_timer)
    /\ animation_timer' = animation_timer
    /\ position_var' = FullPreview(filtered_data, ok, position_var, preview)[1]
    /\ preview' = FullPreview(filtered_data, ok, position_var, preview)[2]

\* a faulty variant: the step advances and draws but schedules no next step
AnimateStep_NoReschedule(playing, pend, ok) ==
    IF ~playing \/ filtered_data.isNone
    THEN /\ animation_playing' = playing
         /\ pending' = pend
         /\ UNCHANGED <<animation_index, animation_timer, position_var, preview>>
    ELSE IF animation_index >= Length(filtered_data)
    THEN ResetAnimation(pend, ok)
    ELSE /\ animation_playing' = playing
         /\ animation_index' = animation_index + 1
         /\ position_var' =
              AnimatedPreview(filtered_data, animation_index + 1, ok, position_var, preview)[1]
         /\ preview' =
              AnimatedPreview(filtered_data, animation_index + 1, ok, position_var, preview)[2]
         /\ animation_timer' = animation_timer
         /\ pending' = pend

\* a faulty variant: the end-of-track test is > instead of >=
AnimateStep_StrictEnd(playing, pend, ok) ==
    IF ~playing \/ filtered_data.isNone
    THEN /\ animation_playing' = playing
         /\ pending' = pend
         /\ UNCHANGED <<animation_index, animation_timer, position_var, preview>>
    ELSE IF animation_index > Length(filtered_data)
    THEN ResetAnimation(pend, ok)
    ELSE /\ FreshIds(pend) # {}
         /\ animation_playing' = playing
         /\ animation_index' = animation_index + 1
         /\ position_var' =
              AnimatedPreview(filtered_data, animation_index + 1, ok, position_var, preview)[1]
         /\ preview' =
              AnimatedPreview(filtered_data, animation_index + 1, ok, position_var, preview)[2]
         /\ animation_timer' = {NewTimerId(pend)}
         /\ pending' = pend \cup {NewTimerId(pend)}

(***************************************************************************)
(* animate_step, called with animation_playing = playing and `pend` timers *)
(* pending: return when not playing or without a table; reset when the     *)
(* cursor is at or past the end; otherwise advance the cursor, draw, and   *)
(* schedule the next step.                                                 *)
(***************************************************************************)
AnimateStep(playing, pend, ok) ==
    IF ~playing \/ filtered_data.isNone
    THEN /\ animation_playing' = playing
         /\ pending' = pend
         /\ UNCHANGED <<animation_index, animation_timer, position_var, preview>>
    ELSE IF animation_index >= Length(filtered_data)
    THEN ResetAnimation(pend, ok)
    ELSE /\ FreshIds(pend) # {}
         /\ animation_playing' = playing
         /\ animation_index' = animation_index + 1
         /\ position_var' =
              AnimatedPreview(filtered_data, animation_index + 1, ok, position_var, preview)[1]
         /\ preview' =
              AnimatedPreview(filtered_data, animation_index + 1, ok, position_var, preview)[2]
         /\ animation_timer' = {NewTimerId(pend)}
         /\ pending' = pend \cup {NewTimerId(pend)}

\* a faulty variant: pausing also rewinds the cursor
toggle_animation_Rewinds(ok) ==
    /\ IF animation_playing
       THEN /\ animation_playing' = FALSE
            /\ pending' = AfterCancel(pending, animation_timer)
            /\ animation_index' = 0
            /\ UNCHANGED <<animation_timer, position_var, preview>>
            /\ last' = Did("pause", 0)
       ELSE /\ AnimateStep(TRUE, pending, ok)
            /\ last' = Did("start", 0)
    /\ UNCHANGED <<events_file, animal_combo, gps_data, animal_var, start_date_var,
                   end_date_var, filtered_data, fnVars>>

\* the Play/Pause button
toggle_animation(ok) ==
    /\ IF animation_playing
       THEN /\ animation_playing' = FALSE
            /\ pending' = AfterCancel(pending, animation_timer)
            /\ UNCHANGED <<animation_index, animation_timer, position_var, preview>>
            /\ last' = Did("pause", 0)
       ELSE /\ AnimateStep(TRUE, pending, ok)
            /\ last' = Did("start", 0)
    /\ UNCHANGED <<events_file, animal_combo, gps_data, animal_var, start_date_var,
                   end_date_var, filtered_data, fnVars>>

\* the Reset button
reset_animation(ok) ==
    /\ ResetAnimation(pending, ok)
    /\ last' = Did("reset", 0)
    /\ UNCHANGED <<events_file, animal_combo, gps_data, animal_var, start_date_var,
                   end_date_var, filtered_data, fnVars>>

\* the event loop fires the pending timer `id`, whose callback is animate_step
animate_step(id, ok) ==
    /\ id \in pending
    /\ AnimateStep(animation_playing, pending \ {id}, ok)
    /\ last' = Did("tick", 0)
    /\ UNCHANGED <<events_file, animal_combo, gps_data, animal_var, start_date_var,
                   end_date_var, filtered_data, fnVars>>

(***************************************************************************)
(* The position slider is dragged to p: the Scale widget stores p in       *)
(* position_var and calls on_position_changed.  (position_var.set() from   *)
(* the program moves the slider without calling the command.)              *)
(***************************************************************************)
on_position_changed(p, ok) ==
    /\ IF NoData(filtered_data)
       THEN /\ position_var' = p
            /\ UNCHANGED <<animation_playing, animation_index, animation_timer,
                           pending, preview>>
       ELSE /\ animation_playing' = FALSE
            /\ pending' = IF animation_playing
                          THEN AfterCancel(pending, animation_timer) ELSE pending
            /\ animation_timer' = animation_timer
            /\ animation_index' = SeekIndex(p, Length(filtered_data))
            /\ position_var' =
                 AnimatedPreview(filtered_data, SeekIndex(p, Length(filtered_data)),
                                 ok, p, preview)[1]
            /\ preview' =
                 AnimatedPreview(filtered_data, SeekIndex(p, Length(filtered_data)),
                                 ok, p, preview)[2]
    /\ last' = Did("seek", p)
    /\ UNCHANGED <<events_file, animal_combo, gps_data, animal_var, start_date_var,
                   end_date_var, filtered_data, fnVars>>

(***************************************************************************)
(* An animal is picked in the combobox (its values are the animals of the  *)
(* table): the date entries are set to the animal's first and last day,    *)
(* the view is filtered and the full track drawn.                          *)
(***************************************************************************)
on_animal_selected(a, ok) ==
    /\ a \in animal_combo
    /\ ~gps_data.isNone
    /\ AnimalRows(gps_data, a) # {}
    /\ animal_var' = a
    /\ start_date_var' = DateText(DayOf(MinTs(AnimalRows(gps_data, a))))
    /\ end_date_var' = DateText(DayOf(MaxTs(AnimalRows(gps_data, a))))
    /\ filtered_data' \in FilterResults(gps_data, a, start_date_var', end_date_var')
    /\ position_var' = FullPreview(filtered_data', ok, position_var, preview)[1]
    /\ preview' = FullPreview(filtered_data', ok, position_var, preview)[2]
    /\ last' = Did("select", 0)
    /\ UNCHANGED <<events_file, animal_combo, gps_data, animation_playing,
                   animation_index, animation_timer, pending, fnVars>>

(***************************************************************************)
(* The Generate Map button, pressed with s and e typed in the date         *)
(* entries (only filter_data reads them): filter_data, a warning when the  *)
(* view is empty, otherwise the full track is drawn.  The exported map     *)
(* file and the status line are not modelled.                              *)
(***************************************************************************)
generate_map(s, e, ok) ==
    /\ start_date_var' = s
    /\ end_date_var' = e
    /\ IF gps_data.isNone \/ animal_var = ""
       THEN filtered_data' = filtered_data
       ELSE filtered_data' \in FilterResults(gps_data, animal_var, s, e)
    /\ position_var' = FullPreview(filtered_data', ok, position_var, preview)[1]
    /\ preview' = FullPreview(filtered_data', ok, position_var, preview)[2]
    /\ last' = Did("generate", 0)
    /\ UNCHANGED <<events_file, animal_combo, gps_data, animal_var, animation_playing,
                   animation_index, animation_timer, pending, fnVars>>

(***************************************************************************)
(* The viewer after GPSViewer.__init__ and its load_data.                  *)
(*                                                                         *)
(* Loaded: load_data returned before reading (gps_data stays None), or     *)
(* read `table`, listed its animals in the combobox and, when there is     *)
(* one, selected the first through on_animal_selected.                     *)
(***************************************************************************)
Loaded(table, ok) ==
    /\ gps_data = table
    /\ animal_combo = Animals(table)
    /\ animation_playing = FALSE
    /\ animation_index = 0
    /\ animation_timer = {}
    /\ pending = {}
    /\ IF Animals(table) = {}
       THEN /\ animal_var = ""
            /\ start_date_var = EmptyDate
            /\ end_date_var = EmptyDate
            /\ filtered_data = NoFrame
            /\ position_var = 0
            /\ preview = [mode |-> "initial", shown |-> 0]
       ELSE /\ animal_var = FirstAnimal(table)
            /\ start_date_var = DateText(DayOf(MinTs(AnimalRows(table, animal_var))))
            /\ end_date_var = DateText(DayOf(MaxTs(AnimalRows(table, animal_var))))
            /\ filtered_data \in FilterResults(table, animal_var, start_date_var, end_date_var)
            /\ position_var = FullPreview(filtered_data, ok, 0, [mode |-> "initial", shown |-> 0])[1]
            /\ preview = FullPreview(filtered_data, ok, 0, [mode |-> "initial", shown |-> 0])[2]
    /\ last = [op |-> "load", in |-> 0, playing |-> FALSE, index |-> 0]

(***************************************************************************)
(* The values of the fetcher's variables (src/fetch_movebank_data.py).     *)
(*                                                                         *)
(* A credential is a string; "" stands for a value that is not given       *)
(* (None or the empty string: `or` and `not` treat the two alike).         *)
(* config.py, when it can be imported, may or may not define each of       *)
(* MOVEBANK_USERNAME and MOVEBANK_PASSWORD.                                *)
(***************************************************************************)
NoConfig == [exists |-> FALSE, has_user |-> FALSE, user |-> "", has_pw |-> FALSE, pw |-> ""]
Config(has_user, user, has_pw, pw) ==
    [exists |-> TRUE, has_user |-> has_user, user |-> user, has_pw |-> has_pw, pw |-> pw]

Credentials(param_user, param_pw, env_user, env_pw, config) ==
    [param_user |-> param_user, param_pw |-> param_pw,
     env_user |-> env_user, env_pw |-> env_pw, config |-> config]

NoCredentials == Credentials("", "", "", "", NoConfig)

\* the --sensors option: not given (args.sensors is None), or its selectors,
\* each a string (nargs='+': at least one)
NoSensorsOption == [given |-> FALSE, selectors |-> <<>>]
SensorsOption(selectors) == [given |-> TRUE, selectors |-> selectors]

\* the parsed command line: --list-sensors, --no-metadata and --sensors
Args(list_sensors, no_metadata, sensors) ==
    [list_sensors |-> list_sensors, no_metadata |-> no_metadata, sensors |-> sensors]

\* no MovebankDataFetcher object, or the one __init__ completed; `consulted`
\* records whether __init__ imported config
NoFetcher == [made |-> FALSE, username |-> "", password |-> "", consulted |-> FALSE]
Fetcher(username, password, consulted) ==
    [made |-> TRUE, username |-> username, password |-> password, consulted |-> consulted]

\* a response body: a table of the entity asked for (for the sensor catalog,
\* `ids` are its sensor_type_id values), a table with a header and no rows,
\* the text sent with an error status, a license text (version `ver`) that
\* holds the marker 'License Terms:', or nothing at all
Body(kind, ver, ids) == [kind |-> kind, ver |-> ver, ids |-> ids]
TableBody(ids) == Body("table", 0, ids)
HeaderBody == Body("header", 0, <<>>)
ErrorBody == Body("error", 0, <<>>)
LicenseBody(ver) == Body("license", ver, <<>>)
EmptyBody == Body("empty", 0, <<>>)

\* an answer of requests.get: a response with a status and a body, or an
\* exception (no connection)
Response(status, body) == [raises |-> FALSE, status |-> status, body |-> body]
NoConnection == [raises |-> TRUE, status |-> 0, body |-> EmptyBody]

\* what call_api did: the license-md5 parameter of each request it sent
\* (NoMd5 when the request had none), the responses it received, and its
\* outcome: an exception, None, or the body it returned
NoMd5 == [given |-> FALSE, of |-> EmptyBody]
Call(sent, received, raised, isNone, body) ==
    [sent |-> sent, received |-> received, raised |-> raised, isNone |-> isNone, body |-> body]
NoCall == Call(<<>>, <<>>, FALSE, TRUE, EmptyBody)

\* the fetcher is not part of a viewer run
FetcherIdle ==
    /\ credentials = NoCredentials
    /\ args = Args(FALSE, FALSE, NoSensorsOption)
    /\ fetcher = NoFetcher
    /\ pc = "idle"
    /\ requested = <<>>
    /\ last_call = NoCall
    /\ sensor_ids = <<>>
    /\ files = {}

\* load_data raised after self.gps_data was assigned `table`: the except
\* branch reports the error; the combobox was not filled and no animal is
\* selected
LoadFailed(table) ==
    /\ gps_data = table
    /\ animal_combo = {}
    /\ animal_var = ""
    /\ start_date_var = EmptyDate
    /\ end_date_var = EmptyDate
    /\ filtered_data = NoFrame
    /\ animation_playing = FALSE
    /\ animation_index = 0
    /\ animation_timer = {}
    /\ pending = {}
    /\ position_var = 0
    /\ preview = [mode |-> "initial", shown |-> 0]
    /\ last = [op |-> "load", in |-> 0, playing |-> FALSE, index |-> 0]

\* load_data on the file `file`.  After a failure past line 318 gps_data
\* keeps what was assigned to it: the rows as read when the timestamp
\* conversion or the dropna raised, the rows with coordinates when the
\* animal column is missing (no handler reads the rows then).
load_data(file, ok) ==
    /\ events_file = file
    /\ IF ~file.exists \/ file.fails = "read" THEN Loaded(NoFrame, ok)
       ELSE IF file.fails \in {"timestamp", "coordinates"} THEN LoadFailed(Frame(file.rows))
       ELSE IF file.fails = "animals" THEN LoadFailed(Frame(DropNa(file.rows)))
       ELSE Loaded(Frame(DropNa(file.rows)), ok)

\* the files load_data is run on
EventsFiles ==
    {NoFile, CsvFile(<<>>, "")}
    \cup {CsvFile(EventsCsv, fails) : fails \in {"", "read", "timestamp", "coordinates", "animals"}}

\* the viewer never calls the normalizer
NormalizerIdle ==
    /\ strftime_pads = TRUE
    /\ arg = <<>>
    /\ res = <<>>

\* the dates typed into an entry
DateInputs == {DateText(d) : d \in 1..MaxDay} \cup {BadDate}

\* the slider positions dragged to
SeekPositions == {0, 50, 100}

Init ==
    /\ \E file \in EventsFiles : \E ok \in BOOLEAN : load_data(file, ok)
    /\ NormalizerIdle
    /\ FetcherIdle

Next ==
    \/ \E ok \in BOOLEAN : toggle_animation(ok)
    \/ \E ok \in BOOLEAN : reset_animation(ok)
    \/ \E id \in TimerIds : \E ok \in BOOLEAN : animate_step(id, ok)
    \/ \E p \in SeekPositions : \E ok \in BOOLEAN : on_position_changed(p, ok)
    \/ \E a \in Range(AnimalOrder) : \E ok \in BOOLEAN : on_animal_selected(a, ok)
    \/ \E s \in DateInputs : \E e \in DateInputs : \E ok \in BOOLEAN : generate_map(s, e, ok)

Spec == Init /\ [][Next]_vars

(***************************************************************************)
(*            The fetcher's timestamp normalizer                           *)
(*                                                                         *)
(* A string is a sequence of one-character strings.                        *)
(***************************************************************************)
DigitChars == <<"0", "1", "2", "3", "4", "5", "6", "7", "8", "9">>

IsDigitChar(c) == c \in Range(DigitChars)
DigitChar(n) == DigitChars[n + 1]
DigitVal(c) == CHOOSE n \in 0..9 : DigitChars[n + 1] = c

\* str.isdigit(): non-empty and digits only
IsDigit(s) == s # <<>> /\ \A i \in DOMAIN s : IsDigitChar(s[i])

\* the value of a digit string
RECURSIVE NumberOf(_)
NumberOf(s) ==
    IF s = <<>> THEN 0
    ELSE 10 * NumberOf(SubSeq(s, 1, Len(s) - 1)) + DigitVal(s[Len(s)])

\* '%d' % n: the decimal digits of n >= 0, without padding
RECURSIVE Decimal(_)
Decimal(n) == IF n < 10 THEN <<DigitChar(n)>> ELSE Decimal(n \div 10) \o <<DigitChar(n % 10)>>

\* str.rjust(width, '0') and str.ljust(width, '0')
RECURSIVE RJustZero(_, _)
RJustZero(s, width) == IF Len(s) >= width THEN s ELSE RJustZero(<<"0">> \o s, width)

RECURSIVE LJustZero(_, _)
LJustZero(s, width) == IF Len(s) >= width THEN s ELSE LJustZero(s \o <<"0">>, width)

\* timestamp_str.replace(' ', '').replace('-', '').replace(':', '')
Stripped(s) == SelectSeq(s, LAMBDA c : c \notin {" ", "-", ":"})

\* str.count(c)
Count(s, c) == Cardinality({i \in DOMAIN s : s[i] = c})

Drop(s, n) == SubSeq(s, n + 1, Len(s))

(***************************************************************************)
(* datetime.strptime.  The format is turned into a regular expression: a   *)
(* directive matches the alternatives below, a blank of the format matches *)
(* a run of one or more blanks, any other character matches itself, and    *)
(* the whole string must be consumed.                                      *)
(*   %Y  \d\d\d\d                   %H  2[0-3]|[0-1]\d|\d                   *)
(*   %m  1[0-2]|0[1-9]|[1-9]        %M  [0-5]\d|\d                          *)
(*   %d  3[0-1]|[1-2]\d|0[1-9]|[1-9]| [1-9]                                *)
(*   %S  6[0-1]|[0-5]\d|\d                                                 *)
(* FieldMatches(f, t) is whether the text t is one of the alternatives of  *)
(* directive f.                                                            *)
(***************************************************************************)
In(c, lo, hi) == IsDigitChar(c) /\ DigitVal(c) >= lo /\ DigitVal(c) <= hi

FieldMatches(f, t) ==
    CASE f = "Y" -> Len(t) = 4 /\ IsDigit(t)
      [] f = "m" -> \/ Len(t) = 2 /\ t[1] = "1" /\ In(t[2], 0, 2)
                    \/ Len(t) = 2 /\ t[1] = "0" /\ In(t[2], 1, 9)
                    \/ Len(t) = 1 /\ In(t[1], 1, 9)
      [] f = "d" -> \/ Len(t) = 2 /\ t[1] = "3" /\ In(t[2], 0, 1)
                    \/ Len(t) = 2 /\ In(t[1], 1, 2) /\ IsDigitChar(t[2])
                    \/ Len(t) = 2 /\ t[1] = "0" /\ In(t[2], 1, 9)
                    \/ Len(t) = 1 /\ In(t[1], 1, 9)
                    \/ Len(t) = 2 /\ t[1] = " " /\ In(t[2], 1, 9)
      [] f = "H" -> \/ Len(t) = 2 /\ t[1] = "2" /\ In(t[2], 0, 3)
                    \/ Len(t) = 2 /\ In(t[1], 0, 1) /\ IsDigitChar(t[2])
                    \/ Len(t) = 1 /\ IsDigitChar(t[1])
      [] f = "M" -> \/ Len(t) = 2 /\ In(t[1], 0, 5) /\ IsDigitChar(t[2])
                    \/ Len(t) = 1 /\ IsDigitChar(t[1])
      [] f = "S" -> \/ Len(t) = 2 /\ t[1] = "6" /\ In(t[2], 0, 1)
                    \/ Len(t) = 2 /\ In(t[1], 0, 5) /\ IsDigitChar(t[2])
                    \/ Len(t) = 1 /\ IsDigitChar(t[1])

\* int(found_dict[f]): the number a matched directive stands for
FieldValue(t) == NumberOf(SelectSeq(t, LAMBDA c : c # " "))

IsDirective(f) == f \in {"Y", "m", "d", "H", "M", "S"}

\* the ways string s matches format fmt entirely, each as the sequence of
\* the directives' values (there is at most one)
RECURSIVE Parses(_, _)
Parses(s, fmt) ==
    IF fmt = <<>> THEN (IF s = <<>> THEN {<<>>} ELSE {})
    ELSE IF IsDirective(Head(fmt))
    THEN UNION {{<<FieldValue(SubSeq(s, 1, n))>> \o rest : rest \in Parses(Drop(s, n), Tail(fmt))} :
                    n \in {k \in 1..Min(4, Len(s)) : FieldMatches(Head(fmt), SubSeq(s, 1, k))}}
    ELSE IF Head(fmt) = " "
    THEN UNION {Parses(Drop(s, n), Tail(fmt)) :
                    n \in {k \in 1..Len(s) : \A i \in 1..k : s[i] = " "}}
    ELSE IF s # <<>> /\ Head(s) = Head(fmt) THEN Parses(Tail(s), Tail(fmt))
    ELSE {}

\* the formats _convert_timestamp tries
FmtDate == <<"Y", "-", "m", "-", "d">>
FmtSeconds == <<"Y", "-", "m", "-", "d", " ", "H", ":", "M", ":", "S">>
FmtMinutes == <<"Y", "-", "m", "-", "d", " ", "H", ":", "M">>

IsLeap(y) == (y % 4 = 0 /\ y % 100 # 0) \/ y % 400 = 0

DaysInMonth(y, m) ==
    IF m = 2 THEN (IF IsLeap(y) THEN 29 ELSE 28)
    ELSE IF m \in {4, 6, 9, 11} THEN 30 ELSE 31

\* the datetime constructor's checks (ValueError otherwise)
ValidDateTime(dt) ==
    /\ dt.y >= 1 /\ dt.y <= 9999
    /\ dt.mo >= 1 /\ dt.mo <= 12
    /\ dt.d >= 1 /\ dt.d <= DaysInMonth(dt.y, dt.mo)
    /\ dt.h >= 0 /\ dt.h <= 23
    /\ dt.mi >= 0 /\ dt.mi <= 59
    /\ dt.sec >= 0 /\ dt.sec <= 59

NoDateTime == [ok |-> FALSE, y |-> 0, mo |-> 0, d |-> 0, h |-> 0, mi |-> 0, sec |-> 0]

\* datetime.strptime(s, fmt); ok = FALSE stands for ValueError
Strptime(s, fmt) ==
    LET ps == Parses(s, fmt)
    IN  IF ps = {} THEN NoDateTime
        ELSE LET v == CHOOSE x \in ps : TRUE
                 dt == [ok |-> TRUE, y |-> v[1], mo |-> v[2], d |-> v[3],
                        h |-> IF Len(v) >= 4 THEN v[4] ELSE 0,
                        mi |-> IF Len(v) >= 5 THEN v[5] ELSE 0,
                        sec |-> IF Len(v) >= 6 THEN v[6] ELSE 0]
             IN  IF ValidDateTime(dt) THEN dt ELSE NoDateTime

(***************************************************************************)
(* dt.strftime('%Y%m%d%H%M%S000').  %m %d %H %M %S are two digits.  %Y is  *)
(* the C library's: four digits, zero-padded, on some platforms, and the   *)
(* bare year number on others (glibc), where a year below 1000 comes out   *)
(* shorter.  `pads` says which platform this is.                           *)
(***************************************************************************)
Strftime(dt, pads) ==
    (IF pads THEN RJustZero(Decimal(dt.y), 4) ELSE Decimal(dt.y))
    \o RJustZero(Decimal(dt.mo), 2) \o RJustZero(Decimal(dt.d), 2)
    \o RJustZero(Decimal(dt.h), 2) \o RJustZero(Decimal(dt.mi), 2)
    \o RJustZero(Decimal(dt.sec), 2) \o <<"0", "0", "0">>

\* an optional string: None, or a text
NoText == [isNone |-> TRUE, text |-> <<>>]
Text(s) == [isNone |-> FALSE, text |-> s]

\* a faulty variant: a ValueError makes the result None
ParseAndFormat_ReturnsNone(s, fmt, pads) ==
    IF Strptime(s, fmt).ok THEN Text(Strftime(Strptime(s, fmt), pads)) ELSE NoText

\* the try block of _convert_timestamp: the format the length selects is
\* parsed and formatted; a ValueError falls through to `return timestamp_str`
ParseAndFormat(s, fmt, pads) ==
    IF Strptime(s, fmt).ok THEN Text(Strftime(Strptime(s, fmt), pads)) ELSE Text(s)

\* a faulty variant: a digit string is cut to its 14 leading digits before the padding
ConvertTimestamp_Reformats(ts, pads) ==
    IF ts.isNone \/ ts.text = <<>> THEN NoText
    ELSE IF IsDigit(Stripped(ts.text)) /\ Len(Stripped(ts.text)) >= 14
    THEN Text(LJustZero(SubSeq(Stripped(ts.text), 1, 14), 17))
    ELSE IF Len(ts.text) = 10 /\ Count(ts.text, "-") = 2
    THEN ParseAndFormat(ts.text, FmtDate, pads)
    ELSE IF Len(ts.text) = 19
    THEN ParseAndFormat(ts.text, FmtSeconds, pads)
    ELSE IF Len(ts.text) = 16
    THEN ParseAndFormat(ts.text, FmtMinutes, pads)
    ELSE ts

\* MovebankDataFetcher._convert_timestamp(timestamp_str)
ConvertTimestamp(ts, pads) ==
    IF ts.isNone \/ ts.text = <<>> THEN NoText
    ELSE IF IsDigit(Stripped(ts.text)) /\ Len(Stripped(ts.text)) >= 14
    THEN Text(LJustZero(Stripped(ts.text), 17))
    ELSE IF Len(ts.text) = 10 /\ Count(ts.text, "-") = 2
    THEN ParseAndFormat(ts.text, FmtDate, pads)
    ELSE IF Len(ts.text) = 19
    THEN ParseAndFormat(ts.text, FmtSeconds, pads)
    ELSE IF Len(ts.text) = 16
    THEN ParseAndFormat(ts.text, FmtMinutes, pads)
    ELSE ts

(***************************************************************************)
(* The seek specification: a viewer that loaded a single track of any      *)
(* length up to MaxSeekLen, on which Play may be pressed once and the      *)
(* slider then dragged once to any position 0..100.                        *)
(***************************************************************************)
MaxSeekLen == 101

\* a table with one animal and len rows, oldest first
TrackTable(len) ==
    [i \in 1..len |-> [row |-> i, animal |-> "A", ts |-> TicksPerDay + i, located |-> TRUE]]

SeekInit ==
    /\ \E len \in 1..MaxSeekLen : load_data(CsvFile(TrackTable(len), ""), TRUE)
    /\ NormalizerIdle
    /\ FetcherIdle

SeekNext ==
    \/ last.op = "load" /\ toggle_animation(TRUE)
    \/ last.op \in {"load", "start"} /\ \E p \in 0..100 : \E ok \in BOOLEAN : on_position_changed(p, ok)

SeekSpec == SeekInit /\ [][SeekNext]_vars

(***************************************************************************)
(* The normalizer specification: _convert_timestamp applied once to an     *)
(* input drawn from NormalizerInputs, on either kind of platform.  An      *)
(* input records how its text was written: kind "ymd" is YYYY-MM-DD,       *)
(* "seconds" is YYYY-MM-DD HH:MM:SS, "minutes" is YYYY-MM-DD HH:MM (all    *)
(* zero-padded, the numbers not necessarily a valid date or time),         *)
(* "digits" is a digit string, "other" is anything else.                   *)
(***************************************************************************)
\* the longest digit string tried
MaxDigits == 19

Pad(n, width) == RJustZero(Decimal(n), width)

YmdText(y, m, d) == Pad(y, 4) \o <<"-">> \o Pad(m, 2) \o <<"-">> \o Pad(d, 2)
HmText(h, mi) == Pad(h, 2) \o <<":">> \o Pad(mi, 2)

Input(kind, text, y, m, d, h, mi, sec) ==
    [kind |-> kind, ts |-> text, y |-> y, m |-> m, d |-> d, h |-> h, mi |-> mi, sec |-> sec]

DateYears == {0, 1, 999, 1000, 1900, 2000, 2023, 2024, 9999}

YmdInputs ==
    {Input("ymd", Text(YmdText(y, m, d)), y, m, d, 0, 0, 0) :
        y \in DateYears, m \in 0..13, d \in 0..32}

\* the dates and times of day the longer forms are written with
SomeDates == {<<999, 1, 1>>, <<2023, 2, 29>>, <<2024, 2, 29>>, <<2024, 6, 15>>, <<2024, 13, 1>>}
SomeTimes == {<<0, 0, 0>>, <<12, 30, 45>>, <<23, 59, 59>>, <<24, 0, 0>>, <<12, 60, 0>>, <<12, 30, 60>>}

SecondsInputs ==
    {Input("seconds",
           Text(YmdText(dd[1], dd[2], dd[3]) \o <<" ">> \o HmText(tt[1], tt[2])
                \o <<":">> \o Pad(tt[3], 2)),
           dd[1], dd[2], dd[3], tt[1], tt[2], tt[3]) : dd \in SomeDates, tt \in SomeTimes}

MinutesInputs ==
    {Input("minutes", Text(YmdText(dd[1], dd[2], dd[3]) \o <<" ">> \o HmText(tt[1], tt[2])),
           dd[1], dd[2], dd[3], tt[1], tt[2], 0) : dd \in SomeDates, tt \in SomeTimes}

\* digit strings of every length up to MaxDigits
DigitPatterns ==
    {<<"2", "0", "2", "4", "0", "6", "1", "5", "1", "2", "3", "0", "4", "5", "1", "2", "3", "4", "5", "6">>,
     <<"0", "0", "0", "0", "0", "0", "0", "0", "0", "0", "0", "0", "0", "0", "0", "0", "0", "0", "0", "0">>}

DigitInputs ==
    {Input("digits", Text(SubSeq(pat, 1, n)), 0, 0, 0, 0, 0, 0) :
        pat \in DigitPatterns, n \in 1..MaxDigits}

OtherTexts ==
    {<<"x">>,
     <<"2", "0", "2", "4", "/", "0", "6", "/", "1", "5">>,
     <<"2", "0", "2", "4", "-", "0", "6", "-", " ", "5">>,
     <<"2", "0", "2", "4", "-", "6", "-", "1", "5">>,
     <<"2", "0", "2", "4", "-", "6", "-", "5", " ", " ", " ", " ", "1", ":", "2", ":", "3", "0", "0">>,
     <<"2", "0", "2", "4", "0", "6", "1", "5", " ", "1", "2", ":", "3", "0", ":", "4", "5">>,
     <<"2", "0", "2", "4", "0", "6", "1", "5", "T", "1", "2", "3", "0", "4", "5">>}

OtherInputs ==
    {Input("other", Text(t), 0, 0, 0, 0, 0, 0) : t \in OtherTexts}
    \cup {Input("other", NoText, 0, 0, 0, 0, 0, 0), Input("other", Text(<<>>), 0, 0, 0, 0, 0, 0)}

NormalizerInputs == YmdInputs \cup SecondsInputs \cup MinutesInputs \cup DigitInputs \cup OtherInputs

NoResult == [done |-> FALSE, out |-> NoText]

\* the viewer is not part of a fetcher run
ViewerAbsent == load_data(NoFile, TRUE)

NormalizerInit ==
    /\ ViewerAbsent
    /\ strftime_pads \in BOOLEAN
    /\ arg \in NormalizerInputs
    /\ res = NoResult
    /\ FetcherIdle

\* ts_start = self._convert_timestamp(timestamp_start)
convert_timestamp ==
    /\ ~res.done
    /\ res' = [done |-> TRUE, out |-> ConvertTimestamp(arg.ts, strftime_pads)]
    /\ UNCHANGED <<viewerVars, last, strftime_pads, arg, fetchVars>>

NormalizerNext == convert_timestamp

NormalizerSpec == NormalizerInit /\ [][NormalizerNext]_vars

(***************************************************************************)
(*                 The fetcher (fetch_movebank_data.py)                    *)
(*                                                                         *)
(* MovebankDataFetcher.__init__: each credential is the parameter, or      *)
(* else the environment variable (mbus, mbpw); when one is still not       *)
(* given, config is imported and fills what is not given.  An attribute    *)
(* config does not define raises AttributeError at the line reading it,    *)
(* which ends the try block: the password line is not reached when the     *)
(* username line raised.                                                   *)
(***************************************************************************)
\* a or b, on credentials
Or(a, b) == IF a # "" THEN a ELSE b

\* a faulty variant: the environment is read before the parameters
ResolvedCredentials_EnvironmentFirst(c) ==
    LET u1 == Or(c.env_user, c.param_user)
        p1 == Or(c.env_pw, c.param_pw)
        consult == u1 = "" \/ p1 = ""
        imported == consult /\ c.config.exists
        u2 == IF imported /\ u1 = "" /\ c.config.has_user THEN c.config.user ELSE u1
        reached == imported /\ (u1 # "" \/ c.config.has_user)
        p2 == IF reached /\ p1 = "" /\ c.config.has_pw THEN c.config.pw ELSE p1
    IN  [username |-> u2, password |-> p2, consulted |-> consult]

\* self.username and self.password after line 33, and whether `import
\* config` was executed
ResolvedCredentials(c) ==
    LET u1 == Or(c.param_user, c.env_user)
        p1 == Or(c.param_pw, c.env_pw)
        consult == u1 = "" \/ p1 = ""
        imported == consult /\ c.config.exists
        u2 == IF imported /\ u1 = "" /\ c.config.has_user THEN c.config.user ELSE u1
        reached == imported /\ (u1 # "" \/ c.config.has_user)
        p2 == IF reached /\ p1 = "" /\ c.config.has_pw THEN c.config.pw ELSE p1
    IN  [username |-> u2, password |-> p2, consulted |-> consult]

\* a faulty variant: the placeholder credentials are let through
Rejected_AllowsPlaceholder(r) == r.username = "" \/ r.password = ""

\* the two ValueErrors of __init__: a credential not given, or a placeholder
Rejected(r) ==
    \/ r.username = "" \/ r.password = ""
    \/ r.username = "your_username" \/ r.password = "your_password"

\* main, lines 454-459: fetcher = MovebankDataFetcher().  A ValueError is
\* caught at line 512 and main ends.
construct ==
    /\ pc = "main"
    /\ LET r == ResolvedCredentials(credentials)
       IN  IF Rejected(r)
           THEN /\ fetcher' = [NoFetcher EXCEPT !.consulted = r.consulted]
                /\ pc' = "rejected"
           ELSE /\ fetcher' = Fetcher(r.username, r.password, r.consulted)
                /\ pc' = IF args.list_sensors THEN "list" ELSE "study"
    /\ UNCHANGED <<credentials, args, requested, last_call, sensor_ids, files>>
    /\ UNCHANGED <<viewerVars, last, strftime_pads, arg, res>>

(***************************************************************************)
(* call_api.  `first` answers the request, `second` answers the            *)
(* resubmission that follows a 200 response holding the license marker.    *)
(***************************************************************************)
\* hashlib.md5(response.content).hexdigest(): a token that names the body
Md5(body) == [given |-> TRUE, of |-> body]

CallApi(first, second) ==
    IF first.raises THEN Call(<<NoMd5>>, <<first>>, TRUE, TRUE, EmptyBody)
    ELSE IF first.status = 200
    THEN IF first.body.kind = "license"
         THEN IF second.raises
              THEN Call(<<NoMd5, Md5(first.body)>>, <<first, second>>, TRUE, TRUE, EmptyBody)
              ELSE IF second.status = 403
              THEN Call(<<NoMd5, Md5(first.body)>>, <<first, second>>, FALSE, TRUE, EmptyBody)
              ELSE Call(<<NoMd5, Md5(first.body)>>, <<first, second>>, FALSE, FALSE, second.body)
         ELSE Call(<<NoMd5>>, <<first>>, FALSE, FALSE, first.body)
    ELSE Call(<<NoMd5>>, <<first>>, FALSE, TRUE, EmptyBody)

\* get_study_info ... get_event_data: `if result:` and pd.read_csv give a
\* table unless call_api returned None or an empty body.  Text that is not
\* a table (an error text, a license text) is read as a table of its lines,
\* without the columns of the entity.
HasFrame(call) == ~call.raised /\ ~call.isNone /\ call.body.kind # "empty"

\* the table lacks the columns of the entity asked for
LacksColumns(call) == call.body.kind \in {"error", "license"}

\* the entry of `requested` for a call_api invocation
Request(entity, sensor) == [entity |-> entity, sensor |-> sensor]

\* sensor_names.get(sensor_id, f'sensor_{sensor_id}')
SensorNames == (653 :> "gps") @@ (2365683 :> "acceleration")

SensorName(id) ==
    IF id \in DOMAIN SensorNames THEN [name |-> SensorNames[id], id |-> 0]
    ELSE [name |-> "sensor_", id |-> id]

\* the output files: study_info.csv, ..., and events_<sensor name>.csv
MetaFile(stem) == [stem |-> stem, sensor |-> [name |-> "", id |-> 0]]
EventsFile(id) == [stem |-> "events_", sensor |-> SensorName(id)]

(***************************************************************************)
(* fetch_all_study_data, one action per entity.  The run has no --start    *)
(* and no --end.  An exception of call_api outside the try block of the    *)
(* events loop leaves fetch_all_study_data and is caught by main's         *)
(* `except Exception`, which ends the run (pc "crashed").                  *)
(***************************************************************************)
\* lines 217-226: without study info the function returns; a study table
\* with a name column and no rows makes line 222 raise IndexError after the
\* file is written
fetch_study_info(first, second) ==
    /\ pc = "study"
    /\ requested' = Append(requested, Request("study", 0))
    /\ last_call' = CallApi(first, second)
    /\ files' = IF HasFrame(last_call') THEN files \cup {MetaFile("study_info")} ELSE files
    /\ pc' = IF last_call'.raised THEN "crashed"
             ELSE IF ~HasFrame(last_call') THEN "done"
             ELSE IF last_call'.body.kind = "header" THEN "crashed"
             ELSE IF args.no_metadata THEN "sensors" ELSE "individuals"
    /\ UNCHANGED <<credentials, args, fetcher, sensor_ids>>
    /\ UNCHANGED <<viewerVars, last, strftime_pads, arg, res>>

\* lines 229-251: individuals, tags and deployments are fetched alike
FetchMetadata(here, entity, stem, next, first, second) ==
    /\ pc = here
    /\ requested' = Append(requested, Request(entity, 0))
    /\ last_call' = CallApi(first, second)
    /\ files' = IF HasFrame(last_call') THEN files \cup {MetaFile(stem)} ELSE files
    /\ pc' = IF last_call'.raised THEN "crashed" ELSE next
    /\ UNCHANGED <<credentials, args, fetcher, sensor_ids>>
    /\ UNCHANGED <<viewerVars, last, strftime_pads, arg, res>>

fetch_individuals(first, second) ==
    FetchMetadata("individuals", "individual", "individuals", "tags", first, second)

fetch_tags(first, second) ==
    FetchMetadata("tags", "tag", "tags", "deployments", first, second)

fetch_deployments(first, second) ==
    FetchMetadata("deployments", "deployment", "deployments", "sensors", first, second)

\* SENSOR_TYPES of main (lines 356-374), the entries the selectors tried use
SENSOR_TYPES ==
    (<<"g", "p", "s">> :> 653)
    @@ (<<"a", "c", "c">> :> 2365683)
    @@ (<<"b", "a", "r", "o", "m", "e", "t", "e", "r">> :> 77740391)

\* str.lower(), for the capital letters the selectors tried use
LowerChars == ("G" :> "g") @@ ("P" :> "p") @@ ("S" :> "s")
Lower(s) == [i \in DOMAIN s |-> IF s[i] \in DOMAIN LowerChars THEN LowerChars[s[i]] ELSE s[i]]

\* the sensor_types parameter of fetch_all_study_data: None or a list of ids
NoSensorTypes == [isNone |-> TRUE, ids |-> <<>>]
SensorTypes(ids) == [isNone |-> FALSE, ids |-> ids]

\* main, lines 489-500: None without --sensors; otherwise each selector
\* gives the id of its name, or its number when it is all digits, and is
\* skipped with a warning when it is neither
ParseSensors(option) ==
    LET known(s) == Lower(s) \in DOMAIN SENSOR_TYPES \/ IsDigit(s)
        id(s) == IF Lower(s) \in DOMAIN SENSOR_TYPES THEN SENSOR_TYPES[Lower(s)]
                 ELSE NumberOf(s)
        kept == SelectSeq(option.selectors, known)
    IN  IF ~option.given THEN NoSensorTypes
        ELSE SensorTypes([i \in DOMAIN kept |-> id(kept[i])])

\* lines 265-271: `if sensor_types:` is false for None and for an empty
\* list alike; the requested sensor types the catalog lists, or the whole
\* catalog
SensorTypeIds(sensor_types, available) ==
    IF ~sensor_types.isNone /\ sensor_types.ids # <<>>
    THEN SelectSeq(sensor_types.ids, LAMBDA sid : sid \in Range(available))
    ELSE available

\* lines 253-271: the sensor catalog; without it no events are fetched; a
\* table without the sensor_type_id column raises KeyError at line 262
fetch_sensor_types(first, second) ==
    /\ pc = "sensors"
    /\ requested' = Append(requested, Request("sensor", 0))
    /\ last_call' = CallApi(first, second)
    /\ files' = IF HasFrame(last_call') THEN files \cup {MetaFile("sensors")} ELSE files
    /\ sensor_ids' = IF HasFrame(last_call') /\ ~LacksColumns(last_call')
                     THEN SensorTypeIds(ParseSensors(args.sensors), last_call'.body.ids)
                     ELSE <<>>
    /\ pc' = IF last_call'.raised THEN "crashed"
             ELSE IF ~HasFrame(last_call') THEN "done"
             ELSE IF LacksColumns(last_call') THEN "crashed"
             ELSE IF sensor_ids' = <<>> THEN "done" ELSE "events"
    /\ UNCHANGED <<credentials, args, fetcher>>
    /\ UNCHANGED <<viewerVars, last, strftime_pads, arg, res>>

\* lines 292-311: one turn of the events loop; every exception is caught
\* and the loop goes on
fetch_events(first, second) ==
    /\ pc = "events"
    /\ requested' = Append(requested, Request("event", Head(sensor_ids)))
    /\ last_call' = CallApi(first, second)
    /\ files' = IF HasFrame(last_call') /\ last_call'.body.kind # "header"
                THEN files \cup {EventsFile(Head(sensor_ids))} ELSE files
    /\ sensor_ids' = Tail(sensor_ids)
    /\ pc' = IF Tail(sensor_ids) = <<>> THEN "done" ELSE "events"
    /\ UNCHANGED <<credentials, args, fetcher>>
    /\ UNCHANGED <<viewerVars, last, strftime_pads, arg, res>>

\* main, lines 459-487 (--list-sensors): the catalog is printed, nothing
\* is written; row['sensor_type_id'] raises KeyError on a table without
\* that column
list_sensors(first, second) ==
    /\ pc = "list"
    /\ requested' = Append(requested, Request("sensor", 0))
    /\ last_call' = CallApi(first, second)
    /\ pc' = IF last_call'.raised THEN "crashed"
             ELSE IF HasFrame(last_call') /\ LacksColumns(last_call') THEN "crashed"
             ELSE "done"
    /\ UNCHANGED <<credentials, args, fetcher, sensor_ids, files>>
    /\ UNCHANGED <<viewerVars, last, strftime_pads, arg, res>>

(***************************************************************************)
(* The answers of the server.                                              *)
(***************************************************************************)
\* the license texts the server may send are versions 1..MaxLicenseVersions
MaxLicenseVersions == 2

\* the sensor catalogs the server may send
Catalogs == {<<653>>, <<653, 2365683>>, <<77740391>>}

Tables(entity) ==
    IF entity = "sensor" THEN {TableBody(ids) : ids \in Catalogs} ELSE {TableBody(<<>>)}

FirstResponses(entity) ==
    {Response(200, b) : b \in Tables(entity) \cup {HeaderBody, EmptyBody}
                                \cup {LicenseBody(v) : v \in 1..MaxLicenseVersions}}
    \cup {Response(403, ErrorBody), Response(500, ErrorBody), NoConnection}

SecondResponses(entity) ==
    {Response(200, b) : b \in Tables(entity)}
    \cup {Response(403, ErrorBody), Response(500, ErrorBody), NoConnection}

\* a run of main starts with nothing requested and nothing written
MainStart ==
    /\ fetcher = NoFetcher
    /\ pc = "main"
    /\ requested = <<>>
    /\ last_call = NoCall
    /\ sensor_ids = <<>>
    /\ files = {}

(***************************************************************************)
(* The credential specification: MovebankDataFetcher constructed from      *)
(* every combination of parameters, environment and config.py, in a run    *)
(* with --list-sensors.                                                    *)
(***************************************************************************)
UserValues(own) == {"", own, "your_username"}
PasswordValues(own) == {"", own, "your_password"}

\* what config.py may say of one credential: nothing, or one of the values
Attributes(values) == {<<FALSE, "">>} \cup {<<TRUE, v>> : v \in values}

Configs ==
    {NoConfig}
    \cup {Config(user[1], user[2], pw[1], pw[2]) :
            user \in Attributes(UserValues("c_user")),
            pw \in Attributes(PasswordValues("c_pw"))}

AllCredentials ==
    {Credentials(pu, pp, eu, ep, c) :
        pu \in UserValues("p_user"), pp \in PasswordValues("p_pw"),
        eu \in UserValues("e_user"), ep \in PasswordValues("e_pw"), c \in Configs}

CredentialInit ==
    /\ ViewerAbsent
    /\ NormalizerIdle
    /\ credentials \in AllCredentials
    /\ args = Args(TRUE, FALSE, NoSensorsOption)
    /\ MainStart

CredentialNext ==
    \/ construct
    \/ \E first \in FirstResponses("sensor") : \E second \in SecondResponses("sensor") :
          list_sensors(first, second)

CredentialSpec == CredentialInit /\ [][CredentialNext]_vars

(***************************************************************************)
(* The fetch specification: main fetching a study, with the credentials    *)
(* in the environment, in config.py, or nowhere.                           *)
(***************************************************************************)
SomeCredentials ==
    {Credentials("", "", "e_user", "e_pw", NoConfig),
     Credentials("", "", "", "", Config(TRUE, "c_user", TRUE, "c_pw")),
     NoCredentials}

\* the --sensors options tried: none; GPS; acc 77740391; and unknown names
SensorRequests ==
    {NoSensorsOption,
     SensorsOption(<< <<"G", "P", "S">> >>),
     SensorsOption(<< <<"a", "c", "c">>, <<"7", "7", "7", "4", "0", "3", "9", "1">> >>),
     SensorsOption(<< <<"g", "s", "p">>, <<"6", "5", "3">> >>),
     SensorsOption(<< <<"g", "s", "p">> >>),
     SensorsOption(<< <<"6", "5", "3", "x">>, <<"t", "e", "m", "p">> >>)}

FetchInit ==
    /\ ViewerAbsent
    /\ NormalizerIdle
    /\ credentials \in SomeCredentials
    /\ args \in {Args(FALSE, no_metadata, sensors) :
                    no_metadata \in BOOLEAN, sensors \in SensorRequests}
    /\ MainStart

FetchNext ==
    \/ construct
    \/ \E first \in FirstResponses("study") : \E second \in SecondResponses("study") :
          fetch_study_info(first, second)
    \/ \E first \in FirstResponses("individual") : \E second \in SecondResponses("individual") :
          fetch_individuals(first, second)
    \/ \E first \in FirstResponses("tag") : \E second \in SecondResponses("tag") :
          fetch_tags(first, second)
    \/ \E first \in FirstResponses("deployment") : \E second \in SecondResponses("deployment") :
          fetch_deployments(first, second)
    \/ \E first \in FirstResponses("sensor") : \E second \in SecondResponses("sensor") :
          fetch_sensor_types(first, second)
    \/ \E first \in FirstResponses("event") : \E second \in SecondResponses("event") :
          fetch_events(first, second)

FetchSpec == FetchInit /\ [][FetchNext]_vars

(***************************************************************************)
(*                 is_daytime (gps_viewer.py)                              *)
(*                                                                         *)
(* A timestamp is a time of day with, when it is timezone-aware, its       *)
(* offset from UTC in hours; a naive one is taken as UTC.  Sunrise and     *)
(* sunset are minutes counted from 00:00 Kenyan time of the timestamp's    *)
(* Kenyan date (a sunset after midnight is beyond MinutesPerDay).          *)
(***************************************************************************)
\* Africa/Nairobi is UTC+3 throughout
KenyanOffset == 3

MinutesPerDay == 24 * 60

Timestamp(hour, minute, aware, offset) ==
    [hour |-> hour, minute |-> minute, aware |-> aware, offset |-> offset]

\* timestamp.astimezone(kenyan_tz): the Kenyan time of day, in minutes
KenyanMinute(ts) ==
    (((ts.hour - (IF ts.aware THEN ts.offset ELSE 0) + KenyanOffset) * 60 + ts.minute)
        + MinutesPerDay) % MinutesPerDay

\* timestamp_kenyan.hour
KenyanHour(ts) == KenyanMinute(ts) \div 60

\* calculate_sunrise_sunset: the two times, or (None, None) when astral is
\* not installed ("unavailable") or its computation raises ("throws")
Sun(sunrise, sunset) == [kind |-> "computed", sunrise |-> sunrise, sunset |-> sunset]
NoSun(kind) == [kind |-> kind, sunrise |-> 0, sunset |-> 0]

\* a faulty variant: the last except clause is missing, so a failure in the
\* try block leaves the function with no return statement reached (tier 0)
IsDaytime_Unguarded(ts, sun, fails) ==
    IF fails THEN [day |-> FALSE, tier |-> 0]
    ELSE IF sun.kind = "computed"
    THEN [day |-> sun.sunrise <= KenyanMinute(ts) /\ KenyanMinute(ts) <= sun.sunset, tier |-> 1]
    ELSE [day |-> 6 <= KenyanHour(ts) /\ KenyanHour(ts) <= 18, tier |-> 2]

\* is_daytime(lat, lon, timestamp): the verdict, and the return statement
\* that gave it (tier 1: line 120, tier 2: line 124, tier 3: line 128).
\* `fails` is whether the try block raises before it returns.
IsDaytime(ts, sun, fails) ==
    IF fails THEN [day |-> 6 <= ts.hour /\ ts.hour <= 18, tier |-> 3]
    ELSE IF sun.kind = "computed"
    THEN [day |-> sun.sunrise <= KenyanMinute(ts) /\ KenyanMinute(ts) <= sun.sunset, tier |-> 1]
    ELSE [day |-> 6 <= KenyanHour(ts) /\ KenyanHour(ts) <= 18, tier |-> 2]

(***************************************************************************)
(* The day/night specification: is_daytime applied once.                   *)
(***************************************************************************)
\* the UTC offsets of the timezone-aware timestamps tried
Offsets == {0, 3, -5}

Timestamps ==
    {Timestamp(hour, minute, FALSE, 0) : hour \in 0..23, minute \in {0, 30}}
    \cup {Timestamp(hour, minute, TRUE, offset) :
            hour \in 0..23, minute \in {0, 30}, offset \in Offsets}

\* a day in Kenya (06:30 to 18:40) and a day far west of it, whose sunset
\* falls after the Kenyan midnight
Suns == {Sun(390, 1120), Sun(840, 1560), NoSun("unavailable"), NoSun("throws")}

DaytimeInputs == {[ts |-> ts, sun |-> sun, fails |-> fails] :
                     ts \in Timestamps, sun \in Suns, fails \in BOOLEAN}

NoVerdict == [done |-> FALSE, day |-> FALSE, tier |-> 0]

DaytimeInit ==
    /\ ViewerAbsent
    /\ FetcherIdle
    /\ strftime_pads = TRUE
    /\ arg \in DaytimeInputs
    /\ res = NoVerdict

\* is_day = is_daytime(current_lat, current_lon, current_time)
is_daytime ==
    /\ ~res.done
    /\ res' = [done |-> TRUE,
               day |-> IsDaytime(arg.ts, arg.sun, arg.fails).day,
               tier |-> IsDaytime(arg.ts, arg.sun, arg.fails).tier]
    /\ UNCHANGED <<viewerVars, last, strftime_pads, arg, fetchVars>>

DaytimeNext == is_daytime

DaytimeSpec == DaytimeInit /\ [][DaytimeNext]_vars

(***************************************************************************)
(*        The incremental render (gps_viewer.py, lines 448-542)            *)
(*                                                                         *)
(* What update_map_preview_animated(num_points) computes from the filtered *)
(* view: the point shown, the distance travelled so far and the trail.     *)
(* A point is a row with its latitude; the tracks tried lie on one         *)
(* meridian at whole degrees, where the haversine distance of two points   *)
(* is the difference of their latitudes, counted here in degrees of arc    *)
(* (one degree is 6371 * pi / 180 km).                                     *)
(***************************************************************************)
\* haversine_distance(lat1, lon1, lat2, lon2) with lon1 = lon2
HaversineDistance(p, q) == IF p.lat >= q.lat THEN p.lat - q.lat ELSE q.lat - p.lat

\* total = 0; for i in range(first, stop): total += haversine_distance(row
\* i-1, row i), the rows counted from 0 as iloc counts them (row i is
\* rows[i + 1])
RECURSIVE DistanceLoop(_, _, _, _)
DistanceLoop(rows, i, stop, total) ==
    IF i >= stop THEN total
    ELSE DistanceLoop(rows, i + 1, stop, total + HaversineDistance(rows[i], rows[i + 1]))

\* a faulty variant: the loop runs one pair further, for i in
\* range(1, num_points + 1) as far as there are rows
DistanceSoFar_OnePairMore(rows, num_points) ==
    DistanceLoop(rows, 1, Min(num_points + 1, Len(rows)), 0)

\* distance_so_far of update_map_preview_animated: for i in range(1, num_points)
DistanceSoFar(rows, num_points) == DistanceLoop(rows, 1, num_points, 0)

\* calculate_total_distance
CalculateTotalDistance(fd) ==
    IF fd.isNone \/ Length(fd) < 2 THEN 0
    ELSE DistanceLoop(fd.rows, 1, Length(fd), 0)

\* a faulty variant: the trail is not clipped at its start, so that a slice
\* start below zero counts from the end as iloc does
Trail_Unclipped(rows, num_points, trail_length) ==
    LET start_idx == IF num_points - trail_length >= 0 THEN num_points - trail_length
                     ELSE Max(0, Len(rows) + num_points - trail_length)
    IN  [i \in 1..Max(0, num_points - start_idx) |-> start_idx + i - 1]

\* the indices (from 0) of the rows .iloc[start_idx:num_points] selects,
\* with start_idx = max(0, num_points - trail_length)
Trail(rows, num_points, trail_length) ==
    LET start_idx == Max(0, num_points - trail_length)
    IN  [i \in 1..Max(0, Min(num_points, Len(rows)) - start_idx) |-> start_idx + i - 1]

\* nothing computed: the guard returned or an exception was caught
NoRender == [drawn |-> FALSE, shown |-> 0, distance_so_far |-> 0,
             trail_drawn |-> FALSE, trail |-> <<>>]

\* update_map_preview_animated(num_points) up to the trail: the index (from
\* 0) of the row shown, the distance so far, and the trail when one is drawn
Render(fd, num_points, trail_length) ==
    IF NoData(fd) THEN NoRender
    ELSE IF num_points > Length(fd) THEN NoRender
    ELSE [drawn |-> TRUE,
          shown |-> ShownPoint(num_points, Length(fd)) - 1,
          distance_so_far |-> DistanceSoFar(fd.rows, num_points),
          trail_drawn |-> trail_length > 0,
          trail |-> IF trail_length > 0 THEN Trail(fd.rows, num_points, trail_length)
                    ELSE <<>>]

(***************************************************************************)
(* The render specification: one view, one call of the render by a tick    *)
(* (with the cursor the tick reached) or by a seek (with the index the     *)
(* slider position gives), and one computation of the total distance.      *)
(***************************************************************************)
\* rows of the longest view tried
MaxPoints == 4
\* the latitudes of the points are 0..MaxLat degrees
MaxLat == 2
\* the trail lengths tried are 0..MaxTrail (the slider goes to 200)
MaxTrail == 5

Tracks(len) == [1..len -> [lat : 0..MaxLat]]

\* the slider positions of the seeks tried
RenderPositions == {0, 1, 50, 99, 100}

\* how the render is called on a view of len rows: not at all, by a tick
\* that moved the cursor to c, or by a seek to position p
Calls(len) ==
    {[from |-> "none", position |-> 0, num_points |-> 0]}
    \cup {[from |-> "tick", position |-> 0, num_points |-> c] : c \in 1..len}
    \cup {[from |-> "seek", position |-> p, num_points |-> SeekIndex(p, len)] :
            p \in {q \in RenderPositions : len >= 1}}

\* the input of the render: the view, the call and the trail length
RenderInput(fd, call, n) == [fd |-> fd, call |-> call, trail_length |-> n]

NoOutput == [rendered |-> FALSE, render |-> NoRender, totalled |-> FALSE, total_distance |-> 0]

RenderInit ==
    /\ ViewerAbsent
    /\ FetcherIdle
    /\ strftime_pads = TRUE
    /\ \/ \E call \in Calls(0) : arg = RenderInput(NoFrame, call, 0)
       \/ \E len \in 0..MaxPoints : \E t \in Tracks(len) : \E call \in Calls(len) :
             \E n \in 0..MaxTrail : arg = RenderInput(Frame(t), call, n)
    /\ res = NoOutput

\* self.update_map_preview_animated(self.animation_index), or (index)
update_map_preview_animated ==
    /\ ~res.rendered
    /\ arg.call.from # "none"
    /\ res' = [res EXCEPT !.rendered = TRUE,
                          !.render = Render(arg.fd, arg.call.num_points, arg.trail_length)]
    /\ UNCHANGED <<viewerVars, last, strftime_pads, arg, fetchVars>>

\* self.total_distance = self.calculate_total_distance()
calculate_total_distance ==
    /\ ~res.totalled
    /\ res' = [res EXCEPT !.totalled = TRUE,
                          !.total_distance = CalculateTotalDistance(arg.fd)]
    /\ UNCHANGED <<viewerVars, last, strftime_pads, arg, fetchVars>>

RenderNext ==
    \/ update_map_preview_animated
    \/ calculate_total_distance

RenderSpec == RenderInit /\ [][RenderNext]_vars

(***************************************************************************)
(*          The tick period (gps_viewer.py, lines 254-258, 907-909)        *)
(*                                                                         *)
(* The speed slider runs from 10 to 1000; a ttk.Scale stores a float in    *)
(* its variable and IntVar.get() truncates it, so animate_step reads a     *)
(* whole number s of that range.  int(1000 / s) divides in double          *)
(* precision and truncates: for whole 10 <= s <= 1000 the quotient is      *)
(* either a whole number or at least 1/1000 away from one, so the result   *)
(* is the whole quotient.                                                  *)
(***************************************************************************)
\* a faulty variant: no minimum period
Delay_Unclamped(s) == 1000 \div s

\* delay = max(10, int(1000 / self.anim_speed_var.get()))
Delay(s) == Max(10, 1000 \div s)

(***************************************************************************)
(* The tick-period specification: the speed slider at any setting, moved   *)
(* between the ticks; each tick schedules the next with the delay it       *)
(* computes.                                                               *)
(***************************************************************************)
\* ticks of one playback
MaxTicks == 2

\* the settings of the speed slider
Speeds == 10..1000

\* the settings the slider is moved to between ticks
SpeedMoves == {10, 11, 90, 91, 100, 101, 1000}

DelayInit ==
    /\ ViewerAbsent
    /\ FetcherIdle
    /\ strftime_pads = TRUE
    /\ arg \in [anim_speed_var : Speeds]
    /\ res = [delays |-> <<>>]

\* the user drags the speed slider
move_speed_slider(s) ==
    /\ Len(res.delays) < MaxTicks
    /\ s # arg.anim_speed_var
    /\ arg' = [anim_speed_var |-> s]
    /\ UNCHANGED <<viewerVars, last, strftime_pads, res, fetchVars>>

\* animate_step schedules the next step: root.after(delay, self.animate_step)
schedule_next_step ==
    /\ Len(res.delays) < MaxTicks
    /\ res' = [delays |-> Append(res.delays, Delay(arg.anim_speed_var))]
    /\ UNCHANGED <<viewerVars, last, strftime_pads, arg, fetchVars>>

DelayNext ==
    \/ \E s \in SpeedMoves : move_speed_slider(s)
    \/ schedule_next_step

DelaySpec == DelayInit /\ [][DelayNext]_vars

(***************************************************************************)
(* The playback specification: the viewer as loaded; the user may pick     *)
(* animals and date ranges, then presses Play once and touches nothing     *)
(* more.  Tk's event loop runs every `after` callback once its delay has   *)
(* passed, so a pending timer eventually fires.                            *)
(***************************************************************************)
BeforePlay == last.op \in {"load", "select", "generate"}

PlaybackNext ==
    \/ BeforePlay /\ \E a \in Range(AnimalOrder) : \E ok \in BOOLEAN : on_animal_selected(a, ok)
    \/ BeforePlay /\ \E s \in DateInputs : \E e \in DateInputs : \E ok \in BOOLEAN :
                        generate_map(s, e, ok)
    \/ BeforePlay /\ \E ok \in BOOLEAN : toggle_animation(ok)
    \/ \E id \in TimerIds : \E ok \in BOOLEAN : animate_step(id, ok)

PlaybackSpec ==
    /\ Init
    /\ [][PlaybackNext]_vars
    /\ WF_vars(\E id \in TimerIds : \E ok \in BOOLEAN : animate_step(id, ok))

(***************************************************************************)
(*                         The claims                                      *)
(***************************************************************************)

\* C1 (as stated): in every reachable state the playback cursor satisfies
\* 0 <= animation_index <= len(filtered_data) for the current filtered view.
C1_CursorWithinView ==
    /\ animation_index >= 0
    /\ animation_index <= Length(filtered_data)

\* C2 (as stated): a timer tick while Playing increases the cursor by exactly
\* 1, and if the cursor thereby becomes >= the track length that same tick
\* ends in Idle: cursor 0, not playing, no timer pending.
C2_TickResetsInSameTick ==
    [][(last'.op = "tick" /\ animation_playing) =>
          IF animation_index + 1 >= Length(filtered_data)
          THEN animation_index' = 0 /\ ~animation_playing' /\ pending' = {}
          ELSE animation_index' = animation_index + 1]_vars

\* C2 (amended): a timer tick that finds the cursor below the track length
\* increases the cursor by exactly 1 and stays Playing with exactly one timer
\* pending, also when the cursor thereby reaches the track length; a tick
\* that finds the cursor at or past the track length ends in Idle: cursor 0,
\* not playing, no timer pending.
C2_TickAdvancesThenResets ==
    [][(last'.op = "tick" /\ animation_playing) =>
          IF animation_index < Length(filtered_data)
          THEN /\ animation_index' = animation_index + 1
               /\ animation_playing'
               /\ Cardinality(pending') = 1
               /\ pending' = animation_timer'
          ELSE /\ animation_index' = 0
               /\ ~animation_playing'
               /\ pending' = {}]_vars

\* C2 witness: a tick has moved the cursor onto the track length of a track
\* of at least two points, and the viewer is still playing with a timer pending
C2_Witness ==
    /\ last.op = "tick"
    /\ last.playing
    /\ Length(filtered_data) >= 2
    /\ last.index = Length(filtered_data) - 1
    /\ animation_index = Length(filtered_data)
    /\ animation_playing
    /\ pending # {}

\* C3 (as stated): whenever the subject or the date bounds change and the
\* filtered view is recomputed (on_animal_selected, or generate_map calling
\* filter_data), the playback cursor is reset to 0.
C3_RefilterResetsCursor ==
    [][(last'.op \in {"select", "generate"} /\ ~gps_data.isNone /\ animal_var' # "")
          => animation_index' = 0]_vars

\* C4: whenever the viewer is not playing, no playback timer is pending.
C4_NotPlayingNoTimer == ~animation_playing => pending = {}

\* C4 witness: playback was paused in mid-track; the timer is gone
C4_Witness ==
    /\ last.op = "pause"
    /\ last.index >= 1
    /\ ~animation_playing
    /\ pending = {}
    /\ animation_timer # {}

\* C5: pausing while Playing cancels the pending timer, sets not playing, and
\* leaves the cursor and the filtered view unchanged.
C5_PauseKeepsCursor ==
    [][(last'.op = "pause") =>
          /\ animation_playing
          /\ ~animation_playing'
          /\ pending' = {}
          /\ animation_index' = animation_index
          /\ filtered_data' = filtered_data]_vars

\* C5 witness: a pause taken with the cursor inside the track
C5_Witness ==
    /\ last.op = "pause"
    /\ last.playing
    /\ animation_index >= 1
    /\ animation_index < Length(filtered_data)
    /\ animation_index = last.index
    /\ ~animation_playing

\* C6 (as stated): reset from any state leaves the viewer Idle (cursor 0, not
\* playing, timer cancelled) and the full track redraw is performed with the
\* position slider back at 0.
C6_ResetRedrawsAlways ==
    [][(last'.op = "reset") =>
          /\ animation_index' = 0
          /\ ~animation_playing'
          /\ pending' = {}
          /\ preview'.mode = "full"
          /\ position_var' = 0]_vars

\* C6 (amended): reset from any state leaves cursor 0, not playing and no
\* timer pending; when the filtered view is non-empty the full track is
\* redrawn and the slider set back to 0, unless the drawing fails (the map
\* tiles cannot be fetched), and then, as with no data to draw, the slider
\* keeps its value.
C6_ResetIdleAndRedraw ==
    [][(last'.op = "reset") =>
          /\ animation_index' = 0
          /\ ~animation_playing'
          /\ pending' = {}
          /\ IF NoData(filtered_data)
             THEN position_var' = position_var /\ preview' = preview
             ELSE \/ /\ preview' = [mode |-> "full", shown |-> Length(filtered_data)]
                     /\ position_var' = 0
                  \/ /\ preview'.mode = "failed"
                     /\ position_var' = position_var]_vars

\* C6 witness: reset pressed while playing in mid-track, the track redrawn
C6_Witness ==
    /\ last.op = "reset"
    /\ last.playing
    /\ last.index >= 1
    /\ animation_index = 0
    /\ ~animation_playing
    /\ pending = {}
    /\ preview.mode = "full"
    /\ position_var = 0

\* round(p / 100 * m), halves rounded up
RoundIndex(p, m) == (p * m + 50) \div 100

\* C7 (as stated): a manual seek to position p on a non-empty view of length
\* L cancels any active playback, sets cursor = round(p/100 * (L-1)), clamped
\* to [1, L-1] when L > 1, and leaves the viewer not playing.
C7_SeekRounds ==
    [][(last'.op = "seek" /\ ~NoData(filtered_data)) =>
          LET L == Length(filtered_data)
              r == RoundIndex(last'.in, L - 1)
          IN  /\ ~animation_playing'
              /\ pending' = {}
              /\ animation_index' = IF L > 1 THEN Max(1, Min(r, L - 1)) ELSE r]_vars

\* C7 (amended): a manual seek to position p on a non-empty view of length L
\* cancels any active playback and leaves the viewer not playing with no
\* timer pending; the cursor becomes int(p/100 * (L-1)), the double-precision
\* product truncated, not rounded, clamped to [1, L-1] when L > 1, and
\* becomes 1 when L = 1.
C7_SeekTruncates ==
    [][(last'.op = "seek" /\ ~NoData(filtered_data)) =>
          LET L == Length(filtered_data)
              m == L - 1
              p == last'.in
              t == IF <<p, m>> \in {<<58, 50>>, <<70, 90>>, <<29, 100>>, <<57, 100>>, <<58, 100>>}
                   THEN (p * m) \div 100 - 1 ELSE (p * m) \div 100
          IN  /\ ~animation_playing'
              /\ pending' = {}
              /\ animation_index' = IF L = 1 THEN 1
                                    ELSE IF t < 1 THEN 1
                                    ELSE IF t > m THEN m ELSE t]_vars

\* C7 witness: the slider dragged to 29 on a 101-point track while playing:
\* playback is cancelled and the cursor is 28 (0.29 * 100 < 29 in doubles)
C7_Witness ==
    /\ last.op = "seek"
    /\ last.playing
    /\ last.in = 29
    /\ Length(filtered_data) = 101
    /\ animation_index = 28
    /\ ~animation_playing
    /\ pending = {}

\* C8: for every filtered view with at least 2 points and every slider
\* position 0..100 the cursor after a manual seek is never 0; a seek to
\* position 50 on a 101-point track yields cursor 50.
C8_SeekNeverZero ==
    (last.op = "seek" /\ Length(filtered_data) >= 2) =>
        /\ animation_index # 0
        /\ (last.in = 50 /\ Length(filtered_data) = 101) => animation_index = 50

\* C8 witness: the seek to position 50 on the 101-point track
C8_Witness ==
    /\ last.op = "seek"
    /\ last.in = 50
    /\ Length(filtered_data) = 101
    /\ animation_index = 50

\* a calendar date: year 1..9999, month 1..12, day within the month
ValidCalendarDate(y, m, d) ==
    /\ y \in 1..9999
    /\ m \in 1..12
    /\ d >= 1
    /\ d <= (IF m = 2 THEN (IF (y % 4 = 0 /\ y % 100 # 0) \/ y % 400 = 0 THEN 29 ELSE 28)
             ELSE IF m \in {4, 6, 9, 11} THEN 30 ELSE 31)

\* C9 (as stated): for all valid calendar dates written as YYYY-MM-DD,
\* _convert_timestamp returns a string of exactly 17 digits that ends in 000
\* and whose first 8 digits are the same year, month and day (time 000000).
C9_DateGives17Digits ==
    (res.done /\ arg.kind = "ymd" /\ ValidCalendarDate(arg.y, arg.m, arg.d)) =>
        /\ ~res.out.isNone
        /\ Len(res.out.text) = 17
        /\ IsDigit(res.out.text)
        /\ SubSeq(res.out.text, 15, 17) = <<"0", "0", "0">>
        /\ SubSeq(res.out.text, 9, 14) = <<"0", "0", "0", "0", "0", "0">>
        /\ NumberOf(SubSeq(res.out.text, 1, 4)) = arg.y
        /\ NumberOf(SubSeq(res.out.text, 5, 6)) = arg.m
        /\ NumberOf(SubSeq(res.out.text, 7, 8)) = arg.d

\* C10: for any input that is exactly 17 digit characters,
\* _convert_timestamp returns that input unchanged.
C10_SeventeenDigitsUnchanged ==
    (res.done /\ ~arg.ts.isNone /\ Len(arg.ts.text) = 17 /\ IsDigit(arg.ts.text)) =>
        res.out = arg.ts

\* C10 witness: a 17-digit input with non-zero milliseconds came back as it was
C10_Witness ==
    /\ res.done
    /\ arg.kind = "digits"
    /\ Len(arg.ts.text) = 17
    /\ arg.ts.text[17] # "0"
    /\ res.out = arg.ts

\* C11 (as stated): for every input whose characters, after removing spaces,
\* hyphens and colons, are all digits and number at least 14,
\* _convert_timestamp returns the stripped digits followed by zeros only, and
\* the result is exactly 17 digits long (also for inputs of more than 17
\* digits).
C11_DigitsPaddedTo17 ==
    (res.done /\ ~arg.ts.isNone /\ IsDigit(Stripped(arg.ts.text))
              /\ Len(Stripped(arg.ts.text)) >= 14) =>
        /\ ~res.out.isNone
        /\ IsDigit(res.out.text)
        /\ Len(res.out.text) = 17
        /\ \A i \in 1..17 :
              res.out.text[i] = IF i <= Len(Stripped(arg.ts.text))
                                THEN Stripped(arg.ts.text)[i] ELSE "0"

\* a time of day: hour 0..23, minute 0..59, second 0..59
ValidTimeOfDay(h, mi, sec) == h \in 0..23 /\ mi \in 0..59 /\ sec \in 0..59

\* C12: _convert_timestamp returns a value for every string or None: None
\* and the empty string give None, and every non-empty string that neither
\* strips to at least 14 digits nor parses against one of the three patterns
\* comes back unchanged; so do digit strings shorter than 14 characters and
\* YYYY-MM-DD and YYYY-MM-DD HH:MM strings with invalid calendar values.
C12_UnparsedUnchanged ==
    res.done =>
        /\ (arg.ts.isNone \/ arg.ts.text = <<>>) => res.out = NoText
        /\ (/\ ~arg.ts.isNone
            /\ arg.ts.text # <<>>
            /\ ~(IsDigit(Stripped(arg.ts.text)) /\ Len(Stripped(arg.ts.text)) >= 14)
            /\ \A f \in {FmtDate, FmtSeconds, FmtMinutes} : ~Strptime(arg.ts.text, f).ok)
           => res.out = arg.ts
        /\ (arg.kind = "digits" /\ Len(arg.ts.text) < 14) => res.out = arg.ts
        /\ (/\ arg.kind \in {"ymd", "minutes"}
            /\ ~(ValidCalendarDate(arg.y, arg.m, arg.d) /\ ValidTimeOfDay(arg.h, arg.mi, arg.sec)))
           => res.out = arg.ts

\* C12 witness: 2023-02-29, pattern-shaped but not a calendar date, came back
\* unchanged
C12_Witness ==
    /\ res.done
    /\ arg.kind = "ymd"
    /\ arg.y = 2023 /\ arg.m = 2 /\ arg.d = 29
    /\ res.out = arg.ts
    /\ Len(res.out.text) = 10

\* C13 (as stated): for every valid YYYY-MM-DD HH:MM:SS input the result is
\* YYYYMMDDHHMMSS followed by 000, and for every valid YYYY-MM-DD HH:MM input
\* it is YYYYMMDDHHMM followed by 00 and 000, whichever step of the algorithm
\* handles the input.
C13_DateTimeForms ==
    (/\ res.done
     /\ arg.kind \in {"seconds", "minutes"}
     /\ ValidCalendarDate(arg.y, arg.m, arg.d)
     /\ ValidTimeOfDay(arg.h, arg.mi, arg.sec)) =>
        res.out = Text(Pad(arg.y, 4) \o Pad(arg.m, 2) \o Pad(arg.d, 2)
                       \o Pad(arg.h, 2) \o Pad(arg.mi, 2)
                       \o (IF arg.kind = "seconds" THEN Pad(arg.sec, 2) ELSE <<"0", "0">>)
                       \o <<"0", "0", "0">>)

\* the last response call_api received
FinalResponse(call) == call.received[Len(call.received)]

\* C14 (as stated): when a remote call for one entity fails,
\* fetch_all_study_data still issues the requests for the remaining
\* entities; a failure never aborts the whole fetch.  So a fetch that has
\* ended has requested the study info, the sensor catalog and, unless
\* metadata is skipped, the individuals, tags and deployments.
C14_FailureNeverAborts ==
    (fetcher.made /\ pc \in {"done", "crashed"}) =>
        /\ pc = "done"
        /\ {Request("study", 0), Request("sensor", 0)} \subseteq Range(requested)
        /\ ~args.no_metadata =>
              {Request("individual", 0), Request("tag", 0), Request("deployment", 0)}
                  \subseteq Range(requested)

\* C15 (as stated): call_api returns a response body only when the final
\* response it received has status 200 and returns None for every other
\* final status; when the first response is 200 and holds the license
\* marker it resubmits exactly once, with the license-md5 token computed
\* from that first body, and a non-200 answer to the resubmission is
\* reported as failure (None), not as data.
C15_OnlyStatus200IsData ==
    (last_call.received # <<>> /\ ~last_call.raised) =>
        /\ ~last_call.isNone <=> FinalResponse(last_call).status = 200
        /\ (last_call.received[1].status = 200 /\ last_call.received[1].body.kind = "license")
              => /\ Len(last_call.sent) = 2
                 /\ last_call.sent[2] = [given |-> TRUE, of |-> last_call.received[1].body]
                 /\ FinalResponse(last_call).status # 200 => last_call.isNone

\* the first of the values that is given, "" when none is
FirstGiven(values) ==
    IF \E i \in DOMAIN values : values[i] # ""
    THEN values[CHOOSE i \in DOMAIN values :
                    values[i] # "" /\ \A j \in 1..(i - 1) : values[j] = ""]
    ELSE ""

\* the credentials of parameter, then environment, then config file
LayeredUsername(c) ==
    FirstGiven(<<c.param_user, c.env_user,
                 IF c.config.exists /\ c.config.has_user THEN c.config.user ELSE "">>)

LayeredPassword(c) ==
    FirstGiven(<<c.param_pw, c.env_pw,
                 IF c.config.exists /\ c.config.has_pw THEN c.config.pw ELSE "">>)

\* C16: if, after consulting parameters, environment and config file, the
\* username or the password is missing or is the placeholder, the
\* constructor raises ValueError: no fetcher object exists and no network
\* request is ever issued.
C16_MissingCredentialsRejected ==
    (\/ LayeredUsername(credentials) \in {"", "your_username"}
     \/ LayeredPassword(credentials) \in {"", "your_password"}) =>
        /\ ~fetcher.made
        /\ pc \in {"main", "rejected"}
        /\ requested = <<>>
        /\ last_call.sent = <<>>

\* C16 witness: the username came from the environment, the password is
\* the placeholder of config.py: the constructor raised
C16_Witness ==
    /\ pc = "rejected"
    /\ ~fetcher.made
    /\ credentials.env_user = "e_user"
    /\ LayeredPassword(credentials) = "your_password"
    /\ requested = <<>>

\* C17: credentials are resolved per field in the order parameter,
\* environment variable, config file: a given parameter wins over the
\* environment and a given environment value over the config file (also
\* when the winner is a placeholder and the construction fails), and the
\* config file is consulted only when a field is still missing.
C17_CredentialOrder ==
    pc # "main" =>
        /\ fetcher.made <=> /\ LayeredUsername(credentials) \notin {"", "your_username"}
                            /\ LayeredPassword(credentials) \notin {"", "your_password"}
        /\ fetcher.made => /\ fetcher.username = LayeredUsername(credentials)
                           /\ fetcher.password = LayeredPassword(credentials)
        /\ fetcher.consulted =>
              \/ credentials.param_user = "" /\ credentials.env_user = ""
              \/ credentials.param_pw = "" /\ credentials.env_pw = ""

\* C17 witness: every channel gives a username and the parameter won; the
\* password, given only by config.py, came from there
C17_Witness ==
    /\ fetcher.made
    /\ credentials.param_user = "p_user"
    /\ credentials.env_user = "e_user"
    /\ credentials.config.user = "c_user"
    /\ fetcher.username = "p_user"
    /\ credentials.param_pw = "" /\ credentials.env_pw = ""
    /\ fetcher.password = "c_pw"
    /\ fetcher.consulted

\* the rows of the file that belong in the view of `animal` between the
\* days s and e: with both coordinates, of that animal, and timestamped
\* from 00:00 of day s to before 00:00 of the day after e
RowsInView(file, animal, s, e) ==
    {r \in Range(file.rows) :
        /\ r.located
        /\ r.animal = animal
        /\ r.ts >= s * TicksPerDay
        /\ r.ts < (e + 1) * TicksPerDay}

\* C18: after filter_data with parseable date bounds the filtered view is
\* exactly the loaded rows of the selected subject (rows lacking latitude
\* or longitude never appear) whose timestamp t satisfies start date 00:00
\* <= t < end date + 1 day, each once, in non-decreasing timestamp order,
\* rows with equal timestamps all kept; with the subject's own first and
\* last day as bounds the view is all of its rows.
C18_FilteredViewExact ==
    (~filtered_data.isNone /\ start_date_var.kind = "date" /\ end_date_var.kind = "date") =>
        LET view == filtered_data.rows
            expected == RowsInView(events_file, animal_var, start_date_var.day, end_date_var.day)
            own == {r \in Range(events_file.rows) : r.located /\ r.animal = animal_var}
        IN  /\ Range(view) = expected
            /\ Len(view) = Cardinality(expected)
            /\ \A i \in 1..(Len(view) - 1) : view[i].ts <= view[i + 1].ts
            /\ (/\ own # {}
                /\ \A r \in own : /\ start_date_var.day <= r.ts \div TicksPerDay
                                  /\ r.ts \div TicksPerDay <= end_date_var.day)
               => Range(view) = own

\* C18 witness: Generate Map with one day as both bounds kept the two rows
\* of that day, which share a timestamp, left out the older rows and the
\* row of the same day that has no coordinates
C18_Witness ==
    /\ last.op = "generate"
    /\ start_date_var.kind = "date"
    /\ end_date_var = start_date_var
    /\ Length(filtered_data) = 2
    /\ filtered_data.rows[1].ts = filtered_data.rows[2].ts
    /\ Cardinality(AnimalRows(gps_data, animal_var)) > 2
    /\ \E r \in Range(events_file.rows) :
          /\ ~r.located
          /\ r.animal = animal_var
          /\ r.ts = filtered_data.rows[1].ts

EatHour(ts) ==
    LET utc == IF ts.aware THEN ts.hour - ts.offset ELSE ts.hour
    IN  (utc + 3 + 24) % 24

\* the fixed-hour rule of the code: hours 6 to 18, both included
FixedHourRule(h) == h \in 6..18

\* C21: is_daytime always returns a boolean and never raises (some return
\* statement is always reached), for naive and timezone-aware timestamps
\* alike: when sunrise and sunset are computed the verdict is the comparison
\* against them (tier 1); when the solar computation is unavailable or
\* throws it is the fixed-hour rule on the East-Africa-Time hour (tier 2);
\* after any other failure it is the fixed-hour rule on the raw timestamp
\* hour (tier 3).
C21_AlwaysAVerdict ==
    res.done =>
        /\ res.tier \in 1..3
        /\ res.day \in BOOLEAN
        /\ res.tier = 3 <=> arg.fails
        /\ res.tier = 1 <=> (~arg.fails /\ arg.sun.kind = "computed")
        /\ res.tier = 2 <=> (~arg.fails /\ arg.sun.kind \in {"unavailable", "throws"})
        /\ res.tier = 1 =>
              LET eat == EatHour(arg.ts) * 60 + arg.ts.minute
              IN  res.day <=> (arg.sun.sunrise <= eat /\ eat <= arg.sun.sunset)
        /\ res.tier = 2 => (res.day <=> FixedHourRule(EatHour(arg.ts)))
        /\ res.tier = 3 => (res.day <=> FixedHourRule(arg.ts.hour))

\* the try block fails on a timezone-aware timestamp whose raw hour is in
\* the day window while its East-Africa-Time hour is not
C21_Witness ==
    /\ res.done
    /\ arg.fails
    /\ arg.ts.aware
    /\ arg.sun.kind = "throws"
    /\ res.tier = 3
    /\ res.day
    /\ ~FixedHourRule(EatHour(arg.ts))

\* the sum of the distances of the consecutive pairs of points lo..hi
\* (indices from 0), taken from the far end
RECURSIVE PairSum(_, _, _)
PairSum(rows, lo, hi) ==
    IF hi <= lo THEN 0
    ELSE PairSum(rows, lo, hi - 1) + HaversineDistance(rows[hi], rows[hi + 1])

\* C22: for every cursor value c in 1..L, the distance so far computed by a
\* tick or a seek is the sum of the distances of the consecutive pairs from
\* point 0 up to the cursor's point (point c - 1); it is non-decreasing in
\* c; and at c = L it is the total distance calculate_total_distance
\* returns, itself the sum over all L - 1 pairs, and 0 when L < 2.
C22_DistanceSoFar ==
    LET rows == arg.fd.rows
        L == Len(rows)
        c == arg.call.num_points
    IN  /\ (res.rendered /\ c \in 1..L) =>
              /\ res.render.drawn
              /\ res.render.distance_so_far = PairSum(rows, 0, c - 1)
              /\ \A b \in 1..c :
                    Render(arg.fd, b, arg.trail_length).distance_so_far
                        <= res.render.distance_so_far
        /\ res.totalled =>
              res.total_distance = (IF L < 2 THEN 0 ELSE PairSum(rows, 0, L - 1))
        /\ (res.rendered /\ res.totalled /\ c = L /\ L >= 1) =>
              res.render.distance_so_far = res.total_distance

\* a tick in the middle of a track that moves back and forth, and the tick
\* that reaches its end
C22_Witness ==
    /\ res.rendered
    /\ res.totalled
    /\ arg.call.from = "tick"
    /\ Len(arg.fd.rows) = MaxPoints
    /\ arg.call.num_points = MaxPoints
    /\ res.render.distance_so_far = 2 * MaxLat + 1
    /\ res.total_distance = 2 * MaxLat + 1

\* the whole part of 1000 / s
WholeQuotient(s) == CHOOSE d \in 0..1000 : d * s <= 1000 /\ 1000 < (d + 1) * s

\* C23: for every speed setting s in 10..1000, the delay with which a tick
\* schedules the next one is max(10, floor(1000 / s)) milliseconds for the
\* setting s the slider has at that tick, hence between 10 and 100 ms.
C23_DelayFromSpeed ==
    [][Len(res'.delays) > Len(res.delays) =>
          LET s == arg.anim_speed_var
              delay == res'.delays[Len(res'.delays)]
          IN  /\ s \in 10..1000
              /\ delay = (IF WholeQuotient(s) < 10 THEN 10 ELSE WholeQuotient(s))
              /\ 10 <= delay /\ delay <= 100]_vars

\* a tick at the slowest setting, the slider moved, a tick at the fastest
C23_Witness ==
    /\ res.delays = <<100, 10>>
    /\ arg.anim_speed_var = 1000

C25_PlayingHasOneTimer ==
    /\ Cardinality(pending) <= 1
    /\ animation_playing => Cardinality(pending) = 1

\* Play has just been pressed on a filtered view (of any length)
PlaybackStarted == last.op = "start" /\ ~filtered_data.isNone

\* Idle: cursor 0, not playing, no timer pending
Idle == animation_index = 0 /\ ~animation_playing /\ pending = {}

\* C26: after Play is pressed on a filtered view of length L >= 0, if every
\* scheduled timer eventually fires and the user does nothing more, the
\* viewer eventually is Idle (cursor 0, not playing, no timer pending);
\* before that the cursor takes every value 1..L, and it only ever moves
\* up by one or back to 0.
C26_PlaybackFinishes ==
    /\ PlaybackStarted ~> Idle
    /\ \A c \in 1..MaxTrack :
          (PlaybackStarted /\ Length(filtered_data) >= c) ~> (animation_index = c)
    /\ [][animation_index' # animation_index =>
             \/ animation_index' = animation_index + 1 /\ animation_index' <= Length(filtered_data)
             \/ animation_index' = 0 /\ animation_index = Length(filtered_data)]_vars

\* the tick that found the cursor at the end of the longest track and reset
C26_Witness ==
    /\ last.op = "tick"
    /\ last.playing
    /\ last.index = MaxTrack
    /\ Length(filtered_data) = MaxTrack
    /\ Idle

\* the sensor types of the event requests made so far
EventRequests == {r.sensor : r \in {q \in Range(requested) : q.entity = "event"}}

\* C27 (as stated): event data is requested only for sensor types the user
\* selected and the study offers: when --sensors is supplied, no event
\* request is made for a sensor type outside the resolved selection, also
\* when every supplied selector is unknown (then no event data is
\* fetched); every available sensor type is fetched only when --sensors is
\* omitted.
C27_OnlySelectedSensors ==
    /\ args.sensors.given =>
          EventRequests \subseteq Range(ParseSensors(args.sensors).ids)
    /\ (pc = "events" /\ requested[Len(requested)].entity = "sensor") =>
          Range(sensor_ids) \subseteq Range(last_call.body.ids)

\* C28 (as stated): a manual seek to position 100 on a filtered view of
\* length L >= 2 displays the last point of the track (index L - 1) and a
\* distance so far equal to the total track distance.
C28_SeekToEndShowsLastPoint ==
    LET L == Len(arg.fd.rows)
    IN  (res.rendered /\ arg.call.from = "seek" /\ arg.call.position = 100 /\ L >= 2) =>
            /\ res.render.drawn
            /\ res.render.shown = L - 1
            /\ res.totalled => res.render.distance_so_far = res.total_distance

\* the handler that ran last called update_map_preview_animated, with the
\* cursor it had just set: a tick (or the step Play runs) that advanced the
\* cursor, or a seek on a view with rows
RenderInvoked ==
    \/ last.op \in {"tick", "start"} /\ animation_index = last.index + 1
    \/ last.op = "seek" /\ ~NoData(filtered_data)

\* C29: update_map_preview_animated is only ever invoked, by a tick or by a
\* seek, with 1 <= num_points <= len(filtered_data) for the filtered view
\* current at that moment: never 0 and never past the end, also after the
\* view has been replaced by a shorter one while playing or paused.
C29_RenderArgumentInRange ==
    RenderInvoked =>
        /\ 1 <= animation_index
        /\ animation_index <= Length(filtered_data)

\* a tick that advances the cursor to the end of the two-row view of "B",
\* as after Play on "A" and the selection of "B" at cursor 1
C29_Witness ==
    /\ last.op = "tick"
    /\ last.playing
    /\ last.index = 1
    /\ animal_var = "B"
    /\ Length(filtered_data) = 2
    /\ animation_index = 2
    /\ preview = [mode |-> "animated", shown |-> 2]

\* C30 (as stated): _convert_timestamp is idempotent: for every input x
\* (None, empty, canonical digits, any of the three date patterns, or an
\* unparseable string) _convert_timestamp(_convert_timestamp(x)) equals
\* _convert_timestamp(x).
C30_Idempotent ==
    res.done => ConvertTimestamp(res.out, strftime_pads) = res.out

====
